---- MODULE Spec2Model ----
(***************************************************************************)
(* Drawing and editing state machine of the GeoLayer Mapper                *)
(* (src/src/App.tsx, src/src/components/MapBoard.tsx,                      *)
(* src/src/utils/geoUtils.ts).                                             *)
(*                                                                         *)
(* One action stands for one event handler together with the React render  *)
(* and the effects that the handler's state updates schedule: React        *)
(* flushes the updates made in a discrete event (click, dblclick, drag)    *)
(* and their passive effects before the next event is dispatched, so the   *)
(* closures of the handlers always see the state of the last render.       *)
(*                                                                         *)
(* Coordinates are whole degrees.  Math.sin / Math.cos / Math.atan2 /      *)
(* Math.sqrt are evaluated in fixed point (per mille, milliradians).       *)
(***************************************************************************)
EXTENDS Integers, Naturals, Sequences, FiniteSets, TLC

(***************************************************************************)
(* Bounds of the model.                                                    *)
(***************************************************************************)
\* the amount of input of one run: the coordinates entered by clicks (those
\* of a discarded or cleared accumulator are not counted), the update
\* operations and the advances of the clock between sidebar selections
MaxInput == 3
\* the number of intermediate drag events of one drag gesture
MaxDragEvents == 2
\* the number of calls of utils/firebase that are in flight at a time
MaxPending == 2

(***************************************************************************)
(* Values.                                                                 *)
(***************************************************************************)
Modes == {"none", "point", "circle", "polyline", "polygon", "ruler"}

LatLng(la, ln) == [lat |-> la, lng |-> ln]

\* the null of "LatLngLiteral | null"
NullLatLng == [lat |-> 999, lng |-> 999]

\* the null of "string | null" (ids are 1, 2, ...)
NullId == 0

\* the coordinates that pointer events of the model carry
Coords == {LatLng(0, 0), LatLng(10, 20)}

\* IEEE +Infinity: greater than every finite number of the model
Infinity == 2147483647

\* the texts entered into the radius input, as sequences of characters
RadiusTexts ==
  { <<>>, <<"a">>, <<"0">>, <<"-", "5">>, <<"7">>, <<"7", "a">>,
    <<"1", "e", "9", "9", "9">> }

(***************************************************************************)
(* geoUtils.ts                                                             *)
(***************************************************************************)
\* Earth radius in meters
R == 6371000

Abs(x) == IF x < 0 THEN -x ELSE x

RECURSIVE Pow2(_)
Pow2(e) == IF e = 0 THEN 1 ELSE 2 * Pow2(e - 1)

\* the bits of the significand of a number.  An IEEE double has 53; the
\* model keeps the format and its rounding rule at a significand of 7 bits,
\* so that whole numbers are exact up to 128 in magnitude, as the whole
\* numbers of a double are up to 2^53.
Precision == 7

\* the number nearest to the exact value x (round to nearest, ties to the
\* even significand), as every arithmetic operation on numbers delivers
RoundNumber(x) ==
  LET m == Abs(x)
      e == CHOOSE k \in 0..(30 - Precision) :
             /\ m < Pow2(Precision + k)
             /\ k = 0 \/ m >= Pow2(Precision + k - 1)
      q == m \div Pow2(e)
      r == m % Pow2(e)
      n == IF 2 * r < Pow2(e) THEN q
           ELSE IF 2 * r > Pow2(e) THEN q + 1
           ELSE IF q % 2 = 0 THEN q ELSE q + 1
  IN  IF x < 0 THEN -(n * Pow2(e)) ELSE n * Pow2(e)

\* a + b on numbers
Add(a, b) == RoundNumber(a + b)

\* Math.sqrt on naturals up to 10^6 (floor of the root)
ISqrt(n) == CHOOSE r \in 0..1000 : r * r <= n /\ n < (r + 1) * (r + 1)

\* Math.sin(toRad(d) / 2) in per mille, d in whole degrees
\* (Bhaskara's rational approximation of the sine on [0, 180] degrees)
SinHalf(d) ==
  LET h == d % 720
      g == IF h <= 360 THEN h ELSE h - 360
      s == (4000 * g * (360 - g)) \div (162000 - g * (360 - g))
  IN  IF h <= 360 THEN s ELSE -s

\* Math.cos(toRad(d)) in per mille
Cos(d) == SinHalf(2 * (90 - d))

\* Math.atan2(y, x) in milliradians, for y >= 0, x >= 0, not both 0
Atan2(y, x) ==
  LET AtanUnit(t) == (785 * t + (273 * t * (1000 - t)) \div 1000) \div 1000
  IN  IF y <= x THEN AtanUnit((y * 1000) \div x)
      ELSE 1571 - AtanUnit((x * 1000) \div y)

\* variant of calculateDistance: dLon is taken from lon2 and lat1
calculateDistanceMixedArgs(lat1, lon1, lat2, lon2) ==
  LET sLat == SinHalf(lat2 - lat1)
      sLon == SinHalf(lon2 - lat1)
      a == sLat * sLat
           + ((Cos(lat1) * Cos(lat2)) \div 1000) * ((sLon * sLon) \div 1000)
      c == 2 * Atan2(ISqrt(a), ISqrt(1000000 - a))
  IN  RoundNumber((R \div 1000) * c)

\* haversine distance in meters
calculateDistance(lat1, lon1, lat2, lon2) ==
  LET sLat == SinHalf(lat2 - lat1)
      sLon == SinHalf(lon2 - lon1)
      \* a in millionths (the products are rescaled to stay in 32 bits)
      a == sLat * sLat
           + ((Cos(lat1) * Cos(lat2)) \div 1000) * ((sLon * sLon) \div 1000)
      \* c in milliradians
      c == 2 * Atan2(ISqrt(a), ISqrt(1000000 - a))
  IN  RoundNumber((R \div 1000) * c)

\* the loop of calculatePathLength: i is its index, distance its sum so far
RECURSIVE PathLoop(_, _, _)
PathLoop(positions, i, distance) ==
  IF i < Len(positions) - 1
  THEN PathLoop(positions, i + 1,
                Add(distance, calculateDistance(positions[i + 1].lat,
                                                positions[i + 1].lng,
                                                positions[i + 2].lat,
                                                positions[i + 2].lng)))
  ELSE distance

\* variant of calculatePathLength: the loop starts at the second point
calculatePathLengthFromSecond(positions) == PathLoop(positions, 1, 0)

calculatePathLength(positions) == PathLoop(positions, 0, 0)

\* the forEach of getCentroid over the elements first..last (indices from 1),
\* in index order, with the sums so far.  The range is halved, and the sums
\* of the first half are numbers before the second half is entered, so that
\* the evaluation of a long sequence nests only a few calls.
RECURSIVE CentroidLoop(_, _, _, _)
CentroidLoop(positions, first, last, sums) ==
  IF first > last THEN sums
  ELSE IF first = last
       THEN [latSum |-> Add(sums.latSum, positions[first].lat),
             lngSum |-> Add(sums.lngSum, positions[first].lng)]
       ELSE LET middle == (first + last) \div 2
                sofar == CentroidLoop(positions, first, middle, sums)
            IN  IF sofar \in [latSum : Int, lngSum : Int]
                THEN CentroidLoop(positions, middle + 1, last, sofar)
                ELSE sofar

\* let latSum = 0; let lngSum = 0
NoSums == [latSum |-> 0, lngSum |-> 0]

\* variant of getCentroid: the longitude is computed from latSum
getCentroidLatTwice(positions) ==
  IF Len(positions) = 0 THEN LatLng(0, 0)
  ELSE LET sums == CentroidLoop(positions, 1, Len(positions), NoSums)
       IN  LatLng(sums.latSum \div Len(positions),
                  sums.latSum \div Len(positions))

\* arithmetic mean of the coordinates; the quotient is rounded to the
\* resolution of the model (whole degrees)
getCentroid(positions) ==
  IF Len(positions) = 0 THEN LatLng(0, 0)
  ELSE LET sums == CentroidLoop(positions, 1, Len(positions), NoSums)
       IN  LatLng(sums.latSum \div Len(positions),
                  sums.lngSum \div Len(positions))

(***************************************************************************)
(* State.                                                                  *)
(***************************************************************************)
VARIABLES
  user,              \* App: useState<User | null>
  mounted,           \* the React tree is mounted (no render has thrown)
  pending,           \* the calls of utils/firebase that have not settled yet
  flyCount,          \* FlyToController: the number of map.flyTo calls
  layers,            \* App: useState<CustomLayer[]>
  activeLayerId,     \* App: useState<string>
  objects,           \* App: useState<MapObject[]>
  drawingMode,       \* App: useState<DrawingMode>
  selectedObjectId,  \* App: useState<string | null>
  rulerPoints,       \* App: useState<LatLngLiteral[]>
  flyToTarget,       \* App: useState<{id, time} | null>
  lastFlyToTime,     \* FlyToController: lastFlyToTimeRef
  tempPoints,        \* MapEvents: useState<LatLngLiteral[]>
  circleCenter,      \* MapEvents: useState<LatLngLiteral | null>
  dragPoint,         \* MapEvents: useState<LatLngLiteral | null>
  popupId,           \* the object whose Leaflet popup is open, or NullId
  drag,              \* the Leaflet marker being dragged, or NoDrag
  nextId,            \* the next value of crypto.randomUUID()
  persistLog,        \* the calls of onNewObject / onObjectUpdate / onObjectDelete
  setObjectsCalls,   \* the number of setObjects calls
  firestore,         \* Firestore: the document users/{uid} and its mapObjects
  sent,              \* the documents that the pending calls carry
  loading,           \* the run of loadUserData that has not returned yet
  lastEvent          \* the event handled by the last step

appVars == <<user, mounted, layers, activeLayerId, objects, drawingMode,
             selectedObjectId, rulerPoints, flyToTarget, lastFlyToTime,
             flyCount>>
flyVars == <<flyToTarget, lastFlyToTime, flyCount>>
drawVars == <<tempPoints, circleCenter, dragPoint>>
popupVars == <<popupId>>
storeVars == <<objects, nextId, persistLog, setObjectsCalls, pending>>
cloudVars == <<firestore, sent, loading>>
vars == <<firestore, sent, loading, user, mounted, pending, flyCount, layers, activeLayerId, objects, drawingMode, selectedObjectId,
          rulerPoints, flyToTarget, lastFlyToTime, tempPoints, circleCenter, dragPoint, popupId, drag, nextId, persistLog, setObjectsCalls, lastEvent>>

DEFAULT_LAYERS == << [id |-> 1, visible |-> TRUE], [id |-> 2, visible |-> TRUE] >>

\* the null of "User | null" (uids are 1, 2, ...)
NullUser == 0

\* Firestore before the user has saved anything: users/{uid} has no layers
\* field and no objects field (the field of earlier versions of the
\* program), and the subcollection mapObjects has no document
NoDocuments == [hasLayers |-> FALSE, layers |-> <<>>, objects |-> <<>>,
                mapObjects |-> {}]

\* no run of loadUserData is in progress.  since: the next value of
\* crypto.randomUUID() when the callback of the auth listener started, so
\* the records with this id or a later one are created after sign-in
NoLoad == [stage |-> "none", uid |-> NullUser, since |-> 0, layers |-> <<>>,
           hasLayers |-> FALSE, legacyObjects |-> <<>>, chunk |-> 0]

\* the null of "{ id: string, time: number } | null"
NullTarget == [id |-> NullId, time |-> 0]

NoDrag == [id |-> NullId, handle |-> "none", idx |-> 0, latlng |-> NullLatLng,
           preview |-> <<>>, moves |-> 0]

\* type: the event; mode: drawingMode when it is dispatched; latlng: the
\* coordinate the handler reads; id: the object (for a toolbar event and a
\* map click in mode none: the selection before it); count: the accumulated
\* points before a dblclick, the drag events before a dragend; handle: the
\* dragged handle
Event(type, latlng, id, count, handle) ==
  [type |-> type, mode |-> drawingMode, latlng |-> latlng, id |-> id,
   count |-> count, handle |-> handle]

Init ==
  /\ user = NullUser
  /\ mounted = TRUE
  /\ pending = <<>>
  /\ firestore = NoDocuments
  /\ sent = <<>>
  /\ loading = NoLoad
  /\ flyCount = 0
  /\ layers = DEFAULT_LAYERS
  /\ activeLayerId = DEFAULT_LAYERS[1].id
  /\ objects = <<>>
  /\ drawingMode = "none"
  /\ selectedObjectId = NullId
  /\ rulerPoints = <<>>
  /\ flyToTarget = NullTarget
  /\ lastFlyToTime = 0
  /\ tempPoints = <<>>
  /\ circleCenter = NullLatLng
  /\ dragPoint = NullLatLng
  /\ popupId = NullId
  /\ drag = NoDrag
  /\ nextId = 1
  /\ persistLog = <<>>
  /\ setObjectsCalls = 0
  /\ lastEvent = [type |-> "mount", mode |-> "none", latlng |-> NullLatLng,
                  id |-> NullId, count |-> 0, handle |-> "none"]

(***************************************************************************)
(* Helpers of the handlers.                                                *)
(***************************************************************************)
\* objects.find(o => o.id === id): its index, 0 when there is none
FindIndex(objs, id) ==
  IF \E i \in 1..Len(objs) : objs[i].id = id
  THEN CHOOSE i \in 1..Len(objs) : objs[i].id = id
  ELSE 0

\* variant of Spread: { ...updates, ...target }
SpreadTargetWins(target, updates) ==
  [f \in DOMAIN target \cup DOMAIN updates |->
     IF f \in DOMAIN target THEN target[f] ELSE updates[f]]

\* { ...target, ...updates }
Spread(target, updates) ==
  [f \in DOMAIN target \cup DOMAIN updates |->
     IF f \in DOMAIN updates THEN updates[f] ELSE target[f]]

\* prev.filter(o => o.id !== id)
RECURSIVE FilterOutId(_, _)
FilterOutId(objs, id) ==
  IF objs = <<>> THEN <<>>
  ELSE IF Head(objs).id = id THEN FilterOutId(Tail(objs), id)
       ELSE <<Head(objs)>> \o FilterOutId(Tail(objs), id)

\* layers.find(l => l.id === layerId)?.visible ?? true
isLayerVisible(layerId) ==
  IF \E i \in 1..Len(layers) : layers[i].id = layerId
  THEN layers[CHOOSE i \in 1..Len(layers) : layers[i].id = layerId].visible
  ELSE TRUE

\* the object with this id is rendered on the map
Rendered(id) ==
  /\ FindIndex(objects, id) # 0
  /\ isLayerVisible(objects[FindIndex(objects, id)].layerId)

ObjectIds == {objects[i].id : i \in 1..Len(objects)}

\* variant of FlyToEffect: a request as old as the last handled one flies
FlyToEffectNotStrict ==
  LET fly == /\ flyToTarget' # NullTarget
             /\ flyToTarget'.time >= lastFlyToTime
             /\ FindIndex(objects', flyToTarget'.id) # 0
  IN  /\ lastFlyToTime' = IF fly THEN flyToTarget'.time ELSE lastFlyToTime
      /\ flyCount' = IF fly THEN flyCount + 1 ELSE flyCount

\* FlyToController: the effect on [flyToTarget, objects, map], run after a
\* handler that has changed one of them
FlyToEffect ==
  LET fly == /\ flyToTarget' # NullTarget
             /\ flyToTarget'.time > lastFlyToTime
             /\ FindIndex(objects', flyToTarget'.id) # 0
  IN  /\ lastFlyToTime' = IF fly THEN flyToTarget'.time ELSE lastFlyToTime
      /\ flyCount' = IF fly THEN flyCount + 1 ELSE flyCount

(***************************************************************************)
(* The input of a run, which MaxInput bounds.                              *)
(***************************************************************************)
\* the number of coordinates of a record
VertexCount(obj) ==
  IF obj.type \in {"polyline", "polygon"} THEN Len(obj.positions) ELSE 1

RECURSIVE LogSize(_)
LogSize(log) == IF log = <<>> THEN 0 ELSE Head(log).size + LogSize(Tail(log))

InputUsed ==
  LogSize(persistLog) + Len(tempPoints) + Len(rulerPoints)
  + (IF circleCenter # NullLatLng THEN 1 ELSE 0) + flyToTarget.time

HasInputLeft == InputUsed < MaxInput

(***************************************************************************)
(* MapBoard: the object store facade.                                      *)
(***************************************************************************)
\* a call of utils/firebase (its function, uid and document id): the
\* promise is not awaited
Call(fn, id) == [fn |-> fn, uid |-> user, id |-> id]

\* App.handleNewObject: if (user) saveObject(user.uid, obj)
onNewObject(obj) ==
  pending' = IF user # NullUser
             THEN Append(pending, Call("saveObject", obj.id))
             ELSE pending

\* App.handleObjectUpdate: if (user) saveObject(user.uid, updatedObject)
onObjectUpdate(updatedObject) ==
  pending' = IF user # NullUser
             THEN Append(pending, Call("saveObject", updatedObject.id))
             ELSE pending

\* App.handleObjectDelete: if (user) deleteObject(user.uid, id)
onObjectDelete(id) ==
  pending' = IF user # NullUser
             THEN Append(pending, Call("deleteObject", id))
             ELSE pending

\* variant of handleNewObject: the callback is invoked twice
handleNewObjectPersistsTwice(obj) ==
  /\ objects' = Append(objects, obj)
  /\ setObjectsCalls' = setObjectsCalls + 1
  /\ persistLog' = Append(Append(persistLog,
                                 [op |-> "new", id |-> obj.id,
                                  size |-> VertexCount(obj)]),
                          [op |-> "new", id |-> obj.id, size |-> 0])
  /\ onNewObject(obj)

\* setObjects(prev => [...prev, obj]); onNewObject(obj)
handleNewObject(obj) ==
  /\ objects' = Append(objects, obj)
  /\ setObjectsCalls' = setObjectsCalls + 1
  /\ persistLog' = Append(persistLog, [op |-> "new", id |-> obj.id,
                                       size |-> VertexCount(obj)])
  /\ onNewObject(obj)

\* no record is created: the store and the persistence port are untouched
NoStoreChange == UNCHANGED <<objects, setObjectsCalls, persistLog, pending>>

\* variant of handleObjectUpdate: an id that is not in objects is persisted
\* all the same
handleObjectUpdateUnchecked(id, updates) ==
  LET i == FindIndex(objects, id)
      updatedObject == IF i = 0 THEN Spread([id |-> id], updates)
                       ELSE Spread(objects[i], updates)
  IN  /\ objects' = [k \in 1..Len(objects) |->
                       IF objects[k].id = id THEN updatedObject
                       ELSE objects[k]]
      /\ setObjectsCalls' = setObjectsCalls + 1
      /\ persistLog' =
           Append(persistLog, [op |-> "update", id |-> updatedObject.id,
                               size |-> 1])
      /\ onObjectUpdate(updatedObject)

handleObjectUpdate(id, updates) ==
  LET i == FindIndex(objects, id)
      updatedObject == Spread(objects[i], updates)
  IN  IF i = 0 THEN NoStoreChange
      ELSE /\ objects' = [k \in 1..Len(objects) |->
                            IF objects[k].id = id THEN updatedObject
                            ELSE objects[k]]
           /\ setObjectsCalls' = setObjectsCalls + 1
           /\ persistLog' =
                Append(persistLog, [op |-> "update", id |-> updatedObject.id,
                                    size |-> 1])
           /\ onObjectUpdate(updatedObject)

\* variant of deleteObject: the selection is left as it is
deleteObjectKeepsSelection(id) ==
  /\ objects' = FilterOutId(objects, id)
  /\ selectedObjectId' = selectedObjectId
  /\ setObjectsCalls' = setObjectsCalls + 1
  /\ persistLog' = Append(persistLog, [op |-> "delete", id |-> id,
                                       size |-> 0])
  /\ onObjectDelete(id)

deleteObject(id) ==
  /\ objects' = FilterOutId(objects, id)
  /\ selectedObjectId' =
       IF selectedObjectId = id THEN NullId ELSE selectedObjectId
  /\ setObjectsCalls' = setObjectsCalls + 1
  /\ persistLog' = Append(persistLog, [op |-> "delete", id |-> id,
                                       size |-> 0])
  /\ onObjectDelete(id)

(***************************************************************************)
(* App: the drawing mode.                                                  *)
(***************************************************************************)
\* variant of handleSetDrawingMode: the selection is left as it is
handleSetDrawingModeKeepsSelection(mode) ==
  /\ drawingMode' = mode
  /\ rulerPoints' = IF mode # "ruler" THEN <<>> ELSE rulerPoints
  /\ selectedObjectId' = selectedObjectId

\* variant of handleSetDrawingMode: the ruler points are left as they are
handleSetDrawingModeKeepsRuler(mode) ==
  /\ drawingMode' = mode
  /\ rulerPoints' = rulerPoints
  /\ selectedObjectId' = IF mode # "none" THEN NullId ELSE selectedObjectId

handleSetDrawingMode(mode) ==
  /\ drawingMode' = mode
  /\ rulerPoints' = IF mode # "ruler" THEN <<>> ELSE rulerPoints
  /\ selectedObjectId' = IF mode # "none" THEN NullId ELSE selectedObjectId

(***************************************************************************)
(* MapEvents: the effect on [drawingMode], and the render that follows a   *)
(* handler.                                                                *)
(***************************************************************************)
\* variant of clearTemporaryState: the center of the circle is kept
clearTemporaryStateKeepsCircle(mode, st) ==
  [tempPoints   |-> IF mode # "polyline" /\ mode # "polygon"
                    THEN <<>> ELSE st.tempPoints,
   circleCenter |-> st.circleCenter,
   dragPoint    |-> IF mode # "circle" THEN NullLatLng ELSE st.dragPoint]

\* "Clear temporary state when drawing mode changes"
clearTemporaryState(mode, st) ==
  [tempPoints   |-> IF mode # "polyline" /\ mode # "polygon"
                    THEN <<>> ELSE st.tempPoints,
   circleCenter |-> IF mode # "circle" THEN NullLatLng ELSE st.circleCenter,
   dragPoint    |-> IF mode # "circle" THEN NullLatLng ELSE st.dragPoint]

\* tp, cc, dp, pop: the values the handler has set.  The effect runs
\* when drawingMode has changed; the object components are remounted (and
\* their popup closed) when the key suffix
\* interactive / static changes.
Render(tp, cc, dp, pop) ==
  LET st == [tempPoints |-> tp, circleCenter |-> cc, dragPoint |-> dp]
      after == IF drawingMode' # drawingMode
               THEN clearTemporaryState(drawingMode', st) ELSE st
      remount == (drawingMode' = "none") # (drawingMode = "none")
  IN  /\ tempPoints' = after.tempPoints
      /\ circleCenter' = after.circleCenter
      /\ dragPoint' = after.dragPoint
      /\ popupId' = IF remount THEN NullId ELSE pop

(***************************************************************************)
(* Toolbar.                                                                *)
(***************************************************************************)
SetMode(mode) ==
  /\ drag = NoDrag
  /\ lastEvent' = Event("toolbar", NullLatLng, selectedObjectId, 0, "none")
  /\ handleSetDrawingMode(mode)
  /\ Render(tempPoints, circleCenter, dragPoint, popupId)
  /\ UNCHANGED <<cloudVars, user, mounted, layers, activeLayerId, flyVars, storeVars, drag>>

(***************************************************************************)
(* MapEvents: click, mousemove, dblclick on the map.                       *)
(***************************************************************************)
NewPoint(point) ==
  [id |-> nextId, layerId |-> activeLayerId, type |-> "point",
   title |-> "New Point", description |-> "No description",
   position |-> point]

NewCircle(center, radius) ==
  [id |-> nextId, layerId |-> activeLayerId, type |-> "circle",
   title |-> "New Circle", description |-> "No description",
   center |-> center, radius |-> radius]

NewPolyline(positions) ==
  [id |-> nextId, layerId |-> activeLayerId, type |-> "polyline",
   title |-> "New Line", description |-> "No description",
   positions |-> positions]

NewPolygon(positions) ==
  [id |-> nextId, layerId |-> activeLayerId, type |-> "polygon",
   title |-> "New Polygon", description |-> "No description",
   positions |-> positions]

\* variant of handleClickCircle: the radius is taken from the last
\* mousemove position
handleClickCircleFromDragPoint(point) ==
  IF circleCenter = NullLatLng
  THEN /\ HasInputLeft
       /\ UNCHANGED <<drawingMode, rulerPoints, selectedObjectId, storeVars>>
       /\ Render(tempPoints, point, point, NullId)
  ELSE LET radius == calculateDistance(circleCenter.lat, circleCenter.lng,
                                       dragPoint.lat, dragPoint.lng)
       IN  /\ IF radius > 0
              THEN /\ handleNewObject(NewCircle(circleCenter, radius))
                   /\ nextId' = nextId + 1
              ELSE /\ NoStoreChange
                   /\ UNCHANGED nextId
           /\ handleSetDrawingMode("none")
           /\ Render(tempPoints, NullLatLng, NullLatLng, NullId)

\* variant of handleClickCircle: a radius of 0 is accepted
handleClickCircleNoGuard(point) ==
  IF circleCenter = NullLatLng
  THEN /\ HasInputLeft
       /\ UNCHANGED <<drawingMode, rulerPoints, selectedObjectId, storeVars>>
       /\ Render(tempPoints, point, point, NullId)
  ELSE LET radius == calculateDistance(circleCenter.lat, circleCenter.lng,
                                       point.lat, point.lng)
       IN  /\ IF radius >= 0
              THEN /\ handleNewObject(NewCircle(circleCenter, radius))
                   /\ nextId' = nextId + 1
              ELSE /\ NoStoreChange
                   /\ UNCHANGED nextId
           /\ handleSetDrawingMode("none")
           /\ Render(tempPoints, NullLatLng, NullLatLng, NullId)

\* the branch of handleClick for drawingMode === "circle"
handleClickCircle(point) ==
  IF circleCenter = NullLatLng
  THEN /\ HasInputLeft
       /\ UNCHANGED <<drawingMode, rulerPoints, selectedObjectId, storeVars>>
       /\ Render(tempPoints, point, point, NullId)
  ELSE LET radius == calculateDistance(circleCenter.lat, circleCenter.lng,
                                       point.lat, point.lng)
       IN  /\ IF radius > 0
              THEN /\ handleNewObject(NewCircle(circleCenter, radius))
                   /\ nextId' = nextId + 1
              ELSE /\ NoStoreChange
                   /\ UNCHANGED nextId
           /\ handleSetDrawingMode("none")
           /\ Render(tempPoints, NullLatLng, NullLatLng, NullId)

\* variant of handleClick: point mode is not left after the click
handleClickStaysInPointMode(point) ==
  CASE drawingMode = "none" ->
         /\ selectedObjectId' = NullId
         /\ UNCHANGED <<drawingMode, rulerPoints, storeVars>>
         /\ Render(tempPoints, circleCenter, dragPoint, NullId)
    [] drawingMode = "point" ->
         /\ HasInputLeft
         /\ handleNewObject(NewPoint(point))
         /\ nextId' = nextId + 1
         /\ UNCHANGED <<drawingMode, rulerPoints, selectedObjectId>>
         /\ Render(tempPoints, circleCenter, dragPoint, NullId)
    [] drawingMode = "circle" -> handleClickCircle(point)
    [] drawingMode \in {"polyline", "polygon"} ->
         /\ HasInputLeft
         /\ UNCHANGED <<drawingMode, rulerPoints, selectedObjectId, storeVars>>
         /\ Render(Append(tempPoints, point), circleCenter, dragPoint,
                   NullId)
    [] drawingMode = "ruler" ->
         /\ HasInputLeft
         /\ rulerPoints' = Append(rulerPoints, point)
         /\ UNCHANGED <<drawingMode, selectedObjectId, storeVars>>
         /\ Render(tempPoints, circleCenter, dragPoint, NullId)

handleClick(point) ==
  CASE drawingMode = "none" ->
         /\ selectedObjectId' = NullId
         /\ UNCHANGED <<drawingMode, rulerPoints, storeVars>>
         /\ Render(tempPoints, circleCenter, dragPoint, NullId)
    [] drawingMode = "point" ->
         /\ HasInputLeft
         /\ handleNewObject(NewPoint(point))
         /\ nextId' = nextId + 1
         /\ handleSetDrawingMode("none")
         /\ Render(tempPoints, circleCenter, dragPoint, NullId)
    [] drawingMode = "circle" -> handleClickCircle(point)
    [] drawingMode \in {"polyline", "polygon"} ->
         /\ HasInputLeft
         /\ UNCHANGED <<drawingMode, rulerPoints, selectedObjectId, storeVars>>
         /\ Render(Append(tempPoints, point), circleCenter, dragPoint,
                   NullId)
    [] drawingMode = "ruler" ->
         /\ HasInputLeft
         /\ rulerPoints' = Append(rulerPoints, point)
         /\ UNCHANGED <<drawingMode, selectedObjectId, storeVars>>
         /\ Render(tempPoints, circleCenter, dragPoint, NullId)

MapClick(point) ==
  /\ drag = NoDrag
  /\ lastEvent' = Event("click",
                        IF drawingMode = "none" THEN NullLatLng ELSE point,
                        IF drawingMode = "none" THEN selectedObjectId
                        ELSE NullId, 0, "none")
  /\ handleClick(point)
  /\ UNCHANGED <<cloudVars, user, mounted, layers, activeLayerId, flyToTarget, drag>>
  /\ FlyToEffect

\* registered only while drawingMode === "circle" && circleCenter
handleMouseMove(latlng) ==
  /\ drawingMode = "circle"
  /\ circleCenter # NullLatLng
  /\ dragPoint' = latlng
  /\ UNCHANGED <<tempPoints, circleCenter>>

MouseMove(latlng) ==
  /\ drag = NoDrag
  /\ lastEvent' = Event("mousemove", NullLatLng, NullId, 0, "none")
  /\ handleMouseMove(latlng)
  /\ UNCHANGED <<cloudVars, appVars, popupVars, drag, nextId, persistLog,
                 setObjectsCalls, pending>>

\* variant of handleDblClick: a polygon is finalized from 2 points
handleDblClickOffByOne ==
  CASE drawingMode = "polyline" ->
         /\ IF Len(tempPoints) > 1
            THEN /\ handleNewObject(NewPolyline(tempPoints))
                 /\ nextId' = nextId + 1
            ELSE /\ NoStoreChange
                 /\ UNCHANGED nextId
         /\ handleSetDrawingMode("none")
         /\ Render(<<>>, circleCenter, dragPoint, popupId)
    [] drawingMode = "polygon" ->
         /\ IF Len(tempPoints) > 1
            THEN /\ handleNewObject(NewPolygon(tempPoints))
                 /\ nextId' = nextId + 1
            ELSE /\ NoStoreChange
                 /\ UNCHANGED nextId
         /\ handleSetDrawingMode("none")
         /\ Render(<<>>, circleCenter, dragPoint, popupId)
    [] drawingMode = "ruler" ->
         /\ handleSetDrawingMode("none")
         /\ Render(tempPoints, circleCenter, dragPoint, popupId)
         /\ UNCHANGED storeVars
    [] OTHER ->
         /\ UNCHANGED <<drawingMode, rulerPoints, selectedObjectId, storeVars>>
         /\ Render(tempPoints, circleCenter, dragPoint, popupId)

\* variant of handleDblClick: a discarded shape leaves the mode and the
\* accumulator as they are
handleDblClickKeepsDiscarded ==
  CASE drawingMode = "polyline" ->
         /\ IF Len(tempPoints) > 1
            THEN /\ handleNewObject(NewPolyline(tempPoints))
                 /\ nextId' = nextId + 1
                 /\ handleSetDrawingMode("none")
                 /\ Render(<<>>, circleCenter, dragPoint, popupId)
            ELSE /\ NoStoreChange
                 /\ UNCHANGED <<nextId, drawingMode, rulerPoints,
                                selectedObjectId>>
                 /\ Render(tempPoints, circleCenter, dragPoint, popupId)
    [] drawingMode = "polygon" ->
         /\ IF Len(tempPoints) > 2
            THEN /\ handleNewObject(NewPolygon(tempPoints))
                 /\ nextId' = nextId + 1
                 /\ handleSetDrawingMode("none")
                 /\ Render(<<>>, circleCenter, dragPoint, popupId)
            ELSE /\ NoStoreChange
                 /\ UNCHANGED <<nextId, drawingMode, rulerPoints,
                                selectedObjectId>>
                 /\ Render(tempPoints, circleCenter, dragPoint, popupId)
    [] drawingMode = "ruler" ->
         /\ handleSetDrawingMode("none")
         /\ Render(tempPoints, circleCenter, dragPoint, popupId)
         /\ UNCHANGED storeVars
    [] OTHER ->
         /\ UNCHANGED <<drawingMode, rulerPoints, selectedObjectId, storeVars>>
         /\ Render(tempPoints, circleCenter, dragPoint, popupId)

handleDblClick ==
  CASE drawingMode = "polyline" ->
         /\ IF Len(tempPoints) > 1
            THEN /\ handleNewObject(NewPolyline(tempPoints))
                 /\ nextId' = nextId + 1
            ELSE /\ NoStoreChange
                 /\ UNCHANGED nextId
         /\ handleSetDrawingMode("none")
         /\ Render(<<>>, circleCenter, dragPoint, popupId)
    [] drawingMode = "polygon" ->
         /\ IF Len(tempPoints) > 2
            THEN /\ handleNewObject(NewPolygon(tempPoints))
                 /\ nextId' = nextId + 1
            ELSE /\ NoStoreChange
                 /\ UNCHANGED nextId
         /\ handleSetDrawingMode("none")
         /\ Render(<<>>, circleCenter, dragPoint, popupId)
    [] drawingMode = "ruler" ->
         /\ handleSetDrawingMode("none")
         /\ Render(tempPoints, circleCenter, dragPoint, popupId)
         /\ UNCHANGED storeVars
    [] OTHER ->
         /\ UNCHANGED <<drawingMode, rulerPoints, selectedObjectId, storeVars>>
         /\ Render(tempPoints, circleCenter, dragPoint, popupId)

\* the handler does not read the event
MapDblClick ==
  /\ drag = NoDrag
  /\ lastEvent' = Event("dblclick", NullLatLng, NullId,
                        IF drawingMode = "ruler" THEN Len(rulerPoints)
                        ELSE Len(tempPoints), "none")
  /\ handleDblClick
  /\ UNCHANGED <<cloudVars, user, mounted, layers, activeLayerId, flyToTarget, drag>>
  /\ FlyToEffect

(***************************************************************************)
(* Selection and the object popup.                                         *)
(***************************************************************************)
\* click on a rendered object: the eventHandlers.click of the Editable*
\* components, and Leaflet's own handler of the bound popup (a marker's
\* popup is toggled, a path's popup is opened)
ObjectClick(id) ==
  /\ drag = NoDrag
  /\ Rendered(id)
  /\ drawingMode = "none"
  /\ lastEvent' = Event("objectclick", NullLatLng, id, 0, "none")
  /\ selectedObjectId' = id
  /\ popupId' = IF objects[FindIndex(objects, id)].type = "point" /\ popupId = id
                THEN NullId ELSE id
  /\ UNCHANGED <<cloudVars, user, mounted, layers, activeLayerId, flyVars, drawingMode, rulerPoints, drawVars,
                 drag, storeVars>>

\* the Delete button of ObjectPopup: onDelete(obj.id).  The popup shows the
\* button in its view mode and the radius input in its edit mode; the Edit
\* and Done buttons switch between the two at any time and touch no other
\* state, so both controls are available whenever the popup is open.
DeleteObject(id) ==
  /\ drag = NoDrag
  /\ popupId = id
  /\ lastEvent' = Event("delete", NullLatLng, id, 0, "none")
  /\ deleteObject(id)
  /\ popupId' = NullId
  /\ UNCHANGED <<cloudVars, user, mounted, layers, activeLayerId, flyToTarget, drawingMode, rulerPoints, drawVars,
                 drag, nextId>>
  /\ FlyToEffect

\* click on an object in the list of the sidebar: handleObjectClick, and
\* the effect of FlyToController.  Date.now() does not decrease; two calls
\* in the same millisecond return the same value.
SidebarObjectClick(id, now) ==
  /\ drag = NoDrag
  /\ FindIndex(objects, id) # 0
  /\ now >= flyToTarget.time /\ now >= 1
  \* only the order of the timestamps matters: the clock advances by one
  /\ now <= flyToTarget.time + 1
  /\ now > flyToTarget.time => HasInputLeft
  /\ lastEvent' = Event("sidebar", NullLatLng, id, 0, "none")
  /\ selectedObjectId' = id
  /\ flyToTarget' = [id |-> id, time |-> now]
  /\ UNCHANGED <<cloudVars, user, mounted, layers, activeLayerId, objects, drawingMode, rulerPoints,
                 drawVars, popupVars, drag, nextId, persistLog,
                 setObjectsCalls, pending>>
  /\ FlyToEffect

(***************************************************************************)
(* RadiusInput.                                                            *)
(***************************************************************************)
Digits == {"0", "1", "2", "3", "4", "5", "6", "7", "8", "9"}

DigitValue(c) ==
  CASE c = "0" -> 0 [] c = "1" -> 1 [] c = "2" -> 2 [] c = "3" -> 3
    [] c = "4" -> 4 [] c = "5" -> 5 [] c = "6" -> 6 [] c = "7" -> 7
    [] c = "8" -> 8 [] c = "9" -> 9

StartsWith(s, t) == Len(s) >= Len(t) /\ SubSeq(s, 1, Len(t)) = t

RECURSIVE ParseDigits(_, _)
ParseDigits(s, acc) ==
  IF s = <<>> \/ Head(s) \notin Digits THEN acc
  ELSE ParseDigits(Tail(s), acc * 10 + DigitValue(Head(s)))

\* what follows the longest prefix of digits
RECURSIVE DropDigits(_)
DropDigits(s) ==
  IF s = <<>> \/ Head(s) \notin Digits THEN s ELSE DropDigits(Tail(s))

RECURSIVE Pow10(_)
Pow10(n) == IF n = 0 THEN 1 ELSE 10 * Pow10(n - 1)

\* the greatest decimal exponent of a finite double
MaxExponent == 308

\* mant * 10^exp as a double: Infinity beyond the range of the doubles
Scale(mant, exp) ==
  IF mant = 0 THEN 0
  ELSE IF exp > MaxExponent THEN Infinity
  ELSE mant * Pow10(exp)

\* parseFloat on decimal integers: an optional sign, then "Infinity" or the
\* longest prefix of digits with an optional exponent; NaN when there is
\* neither
parseFloat(text) ==
  LET signed == text # <<>> /\ Head(text) \in {"-", "+"}
      sign == IF signed /\ Head(text) = "-" THEN -1 ELSE 1
      rest == IF signed THEN Tail(text) ELSE text
      after == DropDigits(rest)
      hasExp == /\ Len(after) >= 2
                /\ Head(after) \in {"e", "E"}
                /\ after[2] \in Digits
      exp == IF hasExp THEN ParseDigits(Tail(after), 0) ELSE 0
  IN  IF StartsWith(rest, <<"I", "n", "f", "i", "n", "i", "t", "y">>)
      THEN [nan |-> FALSE, val |-> sign * Infinity]
      ELSE IF rest = <<>> \/ Head(rest) \notin Digits
           THEN [nan |-> TRUE, val |-> 0]
           ELSE [nan |-> FALSE,
                 val |-> sign * Scale(ParseDigits(rest, 0), exp)]

\* a "valid floating-point number" of HTML, without a fraction: an optional
\* "-", digits, an optional exponent of digits
IsValidNumber(text) ==
  LET rest == IF text # <<>> /\ Head(text) = "-" THEN Tail(text) ELSE text
      after == DropDigits(rest)
  IN  /\ rest # <<>>
      /\ Head(rest) \in Digits
      /\ \/ after = <<>>
         \/ /\ Len(after) >= 2
            /\ Head(after) \in {"e", "E"}
            /\ DropDigits(Tail(after)) = <<>>

\* <input type="number">: the e.target.value that a text entered into the
\* input gives.  The value sanitization of HTML keeps a valid
\* floating-point number and replaces any other text by the empty string;
\* for a valid number beyond the range of the doubles the browsers differ
\* (kept as it is, or replaced by the empty string).
TargetValues(text) ==
  IF ~IsValidNumber(text) THEN {<<>>}
  ELSE IF Abs(parseFloat(text).val) = Infinity THEN {text, <<>>}
  ELSE {text}

\* variant of RadiusInputHandleChange: 0 is accepted
RadiusInputHandleChangeNonNegative(id, newVal) ==
  LET val == parseFloat(newVal)
  IN  IF ~val.nan /\ val.val >= 0
      THEN /\ HasInputLeft
           /\ handleObjectUpdate(id, [radius |-> val.val])
      ELSE NoStoreChange

\* RadiusInput.handleChange, with onChange = r => onUpdate(obj.id, {radius: r})
RadiusInputHandleChange(id, newVal) ==
  LET val == parseFloat(newVal)
  IN  IF ~val.nan /\ val.val > 0
      THEN /\ HasInputLeft
           /\ handleObjectUpdate(id, [radius |-> val.val])
      ELSE NoStoreChange

\* the radius input is shown in the edit mode of a circle's popup
RadiusChange(id, newVal) ==
  /\ drag = NoDrag
  /\ popupId = id
  /\ Rendered(id)
  /\ objects[FindIndex(objects, id)].type = "circle"
  /\ lastEvent' = Event("radius", NullLatLng, id, 0, "none")
  /\ \E value \in TargetValues(newVal) : RadiusInputHandleChange(id, value)
  /\ UNCHANGED <<cloudVars, user, mounted, layers, activeLayerId, flyToTarget, drawingMode, selectedObjectId,
                 rulerPoints, drawVars, popupVars, drag, nextId>>
  /\ FlyToEffect

(***************************************************************************)
(* Drag handles of the selected object.                                    *)
(***************************************************************************)
\* Limit vertices for showing edit handles
VERTEX_LIMIT == 100

\* variant of ReplaceAt: the coordinate is inserted before the index
ReplaceAtInserts(positions, idx, latlng) ==
  SubSeq(positions, 1, idx - 1) \o <<latlng>>
    \o SubSeq(positions, idx, Len(positions))

ReplaceAt(positions, idx, latlng) == [positions EXCEPT ![idx] = latlng]

\* variant of Translate: the first point stays where it is
TranslateButFirst(positions, latDiff, lngDiff) ==
  [k \in 1..Len(positions) |->
     IF k = 1 THEN positions[k]
     ELSE LatLng(positions[k].lat + latDiff, positions[k].lng + lngDiff)]

\* obj.positions.map(p => ({lat: p.lat + latDiff, lng: p.lng + lngDiff}))
Translate(positions, latDiff, lngDiff) ==
  [k \in 1..Len(positions) |->
     LatLng(positions[k].lat + latDiff, positions[k].lng + lngDiff)]

\* the handles that are rendered for an object, with their marker position
HandlePosition(obj, handle, idx) ==
  CASE handle = "point" -> obj.position
    [] handle = "center" -> obj.center
    [] handle = "vertex" -> obj.positions[idx]
    [] handle = "move" -> getCentroid(obj.positions)

\* variant of HasHandle: obj.positions.length < VERTEX_LIMIT
HasHandleBelowLimit(obj, handle, idx) ==
  /\ selectedObjectId = obj.id
  /\ CASE handle = "point" ->
            \* draggable={isSelected} interactive={drawingMode === "none"}:
            \* Leaflet enables the dragging of interactive markers only
            obj.type = "point" /\ idx = 0 /\ drawingMode = "none"
       [] handle = "center" -> obj.type = "circle" /\ idx = 0
       [] handle = "vertex" ->
            /\ obj.type \in {"polyline", "polygon"}
            /\ Len(obj.positions) < VERTEX_LIMIT
            /\ idx \in 1..Len(obj.positions)
       [] handle = "move" -> obj.type \in {"polyline", "polygon"} /\ idx = 0
       [] OTHER -> FALSE

HasHandle(obj, handle, idx) ==
  /\ selectedObjectId = obj.id
  /\ CASE handle = "point" ->
            \* draggable={isSelected} interactive={drawingMode === "none"}:
            \* Leaflet enables the dragging of interactive markers only
            obj.type = "point" /\ idx = 0 /\ drawingMode = "none"
       [] handle = "center" -> obj.type = "circle" /\ idx = 0
       [] handle = "vertex" ->
            /\ obj.type \in {"polyline", "polygon"}
            /\ Len(obj.positions) <= VERTEX_LIMIT
            /\ idx \in 1..Len(obj.positions)
       [] handle = "move" -> obj.type \in {"polyline", "polygon"} /\ idx = 0
       [] OTHER -> FALSE

\* the geometry that the drag handlers set on the Leaflet layer
\* (onHandleDrag, onVertexDrag, onCenterDrag; the point marker has none)
DragPreview(obj, handle, idx, newPos) ==
  CASE handle = "point" -> <<>>
    [] handle = "center" -> <<newPos>>
    [] handle = "vertex" -> ReplaceAt(obj.positions, idx, newPos)
    [] handle = "move" ->
         LET center == getCentroid(obj.positions)
         IN  Translate(obj.positions, newPos.lat - center.lat,
                       newPos.lng - center.lng)

\* the updates that the dragend handlers pass to onUpdate
\* (EditablePoint dragend, onHandleDragEnd, onVertexDragEnd, onCenterDragEnd)
DragEndUpdates(obj, handle, idx, newPos) ==
  CASE handle = "point" -> [position |-> newPos]
    [] handle = "center" -> [center |-> newPos]
    [] handle = "vertex" ->
         [positions |-> ReplaceAt(obj.positions, idx, newPos)]
    [] handle = "move" ->
         LET center == getCentroid(obj.positions)
         IN  [positions |-> Translate(obj.positions, newPos.lat - center.lat,
                                      newPos.lng - center.lng)]

\* variant of onDrag: every drag event commits the new geometry
onDragCommits(obj, newPos) ==
  /\ drag' = [drag EXCEPT !.latlng = newPos, !.moves = @ + 1,
                          !.preview = DragPreview(obj, drag.handle, drag.idx,
                                                  newPos)]
  /\ handleObjectUpdate(obj.id,
       DragEndUpdates(obj, drag.handle, drag.idx, newPos))

\* a drag event of the marker: only the Leaflet layers change
onDrag(obj, newPos) ==
  /\ drag' = [drag EXCEPT !.latlng = newPos, !.moves = @ + 1,
                          !.preview = DragPreview(obj, drag.handle, drag.idx,
                                                  newPos)]
  /\ NoStoreChange

\* the dragend event of the marker
onDragEnd(obj) ==
  /\ handleObjectUpdate(obj.id,
       DragEndUpdates(obj, drag.handle, drag.idx, drag.latlng))
  /\ drag' = NoDrag

\* mouse down on a handle and the first movement (Leaflet: dragstart)
DragStart(id, handle, idx) ==
  /\ drag = NoDrag
  /\ Rendered(id)
  /\ HasHandle(objects[FindIndex(objects, id)], handle, idx)
  /\ HasInputLeft
  /\ lastEvent' = Event("dragstart", NullLatLng, id, 0, "none")
  /\ drag' = [id |-> id, handle |-> handle, idx |-> idx,
              latlng |-> HandlePosition(objects[FindIndex(objects, id)],
                                        handle, idx),
              preview |-> <<>>, moves |-> 0]
  /\ UNCHANGED <<cloudVars, appVars, drawVars, popupVars, nextId, persistLog,
                 setObjectsCalls, pending>>

Drag(newPos) ==
  /\ drag # NoDrag
  /\ drag.moves < MaxDragEvents
  /\ lastEvent' = Event("drag", NullLatLng, drag.id, 0, "none")
  /\ onDrag(objects[FindIndex(objects, drag.id)], newPos)
  /\ UNCHANGED <<cloudVars, user, mounted, layers, activeLayerId, flyVars, drawingMode, selectedObjectId,
                 rulerPoints, drawVars, popupVars, nextId>>

DragEnd ==
  /\ drag # NoDrag
  /\ drag.moves >= 1
  /\ lastEvent' = Event("dragend", drag.latlng, drag.id, drag.moves,
                        drag.handle)
  /\ onDragEnd(objects[FindIndex(objects, drag.id)])
  /\ UNCHANGED <<cloudVars, user, mounted, layers, activeLayerId, flyToTarget, drawingMode, selectedObjectId,
                 rulerPoints, drawVars, popupVars, nextId>>
  /\ FlyToEffect

(***************************************************************************)
(* The specification.                                                      *)
(***************************************************************************)
Handles == {"point", "center", "vertex", "move"}

Next ==
  \/ \E mode \in Modes : SetMode(mode)
  \/ \E point \in Coords : MapClick(point)
  \/ \E latlng \in Coords : MouseMove(latlng)
  \/ MapDblClick
  \/ \E id \in ObjectIds : ObjectClick(id)
  \/ \E id \in ObjectIds, now \in 1..MaxInput : SidebarObjectClick(id, now)
  \/ \E id \in ObjectIds : DeleteObject(id)
  \/ \E id \in ObjectIds, newVal \in RadiusTexts : RadiusChange(id, newVal)
  \/ \E id \in ObjectIds, handle \in Handles, idx \in 0..MaxInput :
       DragStart(id, handle, idx)
  \/ \E newPos \in Coords : Drag(newPos)
  \/ DragEnd

Spec == Init /\ [][Next]_vars

(***************************************************************************)
(* App: layers, and the calls of utils/firebase.                           *)
(***************************************************************************)
\* if (user) saveLayers(user.uid, newLayers)
saveLayersIfUser(newLayers) ==
  IF user # NullUser THEN <<Call("saveLayers", NullId)>> ELSE <<>>

\* layers.map(l => l.id === id ? { ...l, visible: !l.visible } : l)
ToggleVisible(ls, id) ==
  [k \in 1..Len(ls) |->
     IF ls[k].id = id THEN [ls[k] EXCEPT !.visible = ~ls[k].visible]
     ELSE ls[k]]

\* variant of toggleLayerVisibility: the id is not compared
toggleLayerVisibilityAll(id) ==
  LET newLayers == [k \in 1..Len(layers) |->
                      [layers[k] EXCEPT !.visible = ~layers[k].visible]]
  IN  /\ layers' = newLayers
      /\ pending' = pending \o saveLayersIfUser(newLayers)

toggleLayerVisibility(id) ==
  LET newLayers == ToggleVisible(layers, id)
  IN  /\ layers' = newLayers
      /\ pending' = pending \o saveLayersIfUser(newLayers)

handleImportLayer(newLayer, newObjects) ==
  LET newLayers == Append(layers, newLayer)
  IN  /\ layers' = newLayers
      /\ objects' = objects \o newObjects
      /\ activeLayerId' = newLayer.id
      /\ pending' = pending \o saveLayersIfUser(newLayers)
                      \o (IF user # NullUser
                          THEN <<Call("saveObjectsBatch", NullId)>>
                          ELSE <<>>)

RemoveAt(seq, i) == SubSeq(seq, 1, i - 1) \o SubSeq(seq, i + 1, Len(seq))

\* variant of settle: a rejected saveObject takes the object out of the
\* collection again
settleRollsBack(i, ok) ==
  /\ pending' = RemoveAt(pending, i)
  /\ objects' = IF ~ok /\ pending[i].fn = "saveObject"
                THEN FilterOutId(objects, pending[i].id) ELSE objects
  /\ UNCHANGED <<layers, activeLayerId, selectedObjectId>>

\* the promise of the call pending[i] is fulfilled (ok) or rejected: no
\* caller awaits it and no caller handles its rejection
settle(i, ok) ==
  /\ pending' = RemoveAt(pending, i)
  /\ UNCHANGED <<layers, activeLayerId, objects, selectedObjectId>>

(***************************************************************************)
(* utils/fileImporter.ts: project files.  A JSON text is modelled by its   *)
(* syntax tree, whose number tokens are sequences of characters; the       *)
(* quoting of strings is not modelled.                                     *)
(***************************************************************************)
\* the value null of JavaScript in a field that holds a number
NullNumber == -2147483646

\* the token null
NullText == <<"n", "u", "l", "l">>

DigitChar(d) == CHOOSE c \in Digits : DigitValue(c) = d

\* Number.prototype.toString on a finite whole number
RECURSIVE ToDigits(_)
ToDigits(n) ==
  IF n < 10 THEN <<DigitChar(n)>>
  ELSE ToDigits(n \div 10) \o <<DigitChar(n % 10)>>

NumberToString(n) == IF n < 0 THEN <<"-">> \o ToDigits(-n) ELSE ToDigits(n)

\* JSON.stringify on a number: a finite number gives its decimal text,
\* NaN, Infinity and null give the token null
JSONstringifyNumber(n) ==
  IF n = NullNumber \/ Abs(n) = Infinity THEN NullText
  ELSE NumberToString(n)

\* JSON.parse on a number token or on the token null
JSONparseNumber(text) ==
  IF text = NullText THEN NullNumber ELSE parseFloat(text).val

\* the values of a JSON text and of its parse
Undefined == [t |-> "undefined"]
JNull == [t |-> "null"]
JNumber(text) == [t |-> "number", text |-> text]
JString(s) == [t |-> "string", s |-> s]
JArray(items) == [t |-> "array", items |-> items]
JObject(members) == [t |-> "object", members |-> members]
NumberValue(n) == [t |-> "number", n |-> n]

\* a text that is not JSON
NotJson == [t |-> "garbage"]

\* JSON.stringify on the fields of a MapObject that hold numbers
StringifyLatLng(p) ==
  [lat |-> JSONstringifyNumber(p.lat), lng |-> JSONstringifyNumber(p.lng)]

StringifyMapObject(o) ==
  CASE o.type = "point" -> [o EXCEPT !.position = StringifyLatLng(@)]
    [] o.type = "circle" ->
         [o EXCEPT !.center = StringifyLatLng(@),
                   !.radius = JSONstringifyNumber(@)]
    [] OTHER ->
         [o EXCEPT !.positions =
            [k \in 1..Len(o.positions) |-> StringifyLatLng(o.positions[k])]]

\* JSON.parse on the same fields
ParseLatLng(p) ==
  [lat |-> JSONparseNumber(p.lat), lng |-> JSONparseNumber(p.lng)]

ParseMapObject(o) ==
  CASE o.type = "point" -> [o EXCEPT !.position = ParseLatLng(@)]
    [] o.type = "circle" ->
         [o EXCEPT !.center = ParseLatLng(@),
                   !.radius = JSONparseNumber(@)]
    [] OTHER ->
         [o EXCEPT !.positions =
            [k \in 1..Len(o.positions) |-> ParseLatLng(o.positions[k])]]

\* JSON.parse: the members of the top-level object, the items of its arrays
\* (a layer has no field that holds a number in this model)
JSONparse(text) ==
  LET ParseItem(item) ==
        IF "type" \in DOMAIN item THEN ParseMapObject(item) ELSE item
      ParseMember(v) ==
        CASE v.t = "number" -> NumberValue(JSONparseNumber(v.text))
          [] v.t = "array" ->
               JArray([k \in 1..Len(v.items) |-> ParseItem(v.items[k])])
          [] OTHER -> v
  IN  IF text.t = "object"
      THEN JObject([key \in DOMAIN text.members |->
                      ParseMember(text.members[key])])
      ELSE text

\* json[key]: undefined when the value has no such property
Property(json, key) ==
  IF json.t = "object" /\ key \in DOMAIN json.members
  THEN json.members[key] ELSE Undefined

\* ToBoolean, as applied by the operator !
ToBoolean(v) ==
  CASE v.t \in {"undefined", "null"} -> FALSE
    [] v.t = "number" -> v.n # 0
    [] v.t = "string" -> v.s # ""
    [] OTHER -> TRUE

\* the file that the browser downloads
File(text) == [readable |-> TRUE, text |-> text]

\* now: Date.now()
saveProjectToFile(ls, objs, now) ==
  File(JObject(
    [version |-> JString("1.0"),
     timestamp |-> JNumber(NumberToString(now)),
     layers |-> JArray(ls),
     objects |-> JArray([k \in 1..Len(objs) |->
                           StringifyMapObject(objs[k])])]))

Rejected(error) ==
  [ok |-> FALSE, error |-> error, layers |-> Undefined, objects |-> Undefined]

\* the promise of loadProjectFromFile: resolved with layers and objects, or
\* rejected with the error of the reader, of JSON.parse, of the property
\* access on null, or the one thrown by the check
loadProjectFromFile(file) ==
  IF ~file.readable THEN Rejected("Failed to read file")
  ELSE IF file.text = NotJson THEN Rejected("SyntaxError")
  ELSE LET json == JSONparse(file.text)
       IN  IF json.t = "null" THEN Rejected("TypeError")
           ELSE IF \/ ~ToBoolean(Property(json, "layers"))
                   \/ ~ToBoolean(Property(json, "objects"))
                THEN Rejected("Invalid project file format")
                ELSE [ok |-> TRUE, error |-> "",
                      layers |-> Property(json, "layers"),
                      objects |-> Property(json, "objects")]

\* variant of handleLoadProject: the layers of the file are taken as soon
\* as the file is seen to have them, before its objects are looked at
handleLoadProjectLayersFirst(file, confirmed) ==
  LET loaded == loadProjectFromFile(file)
      loadedLayers == loaded.layers
      loadedObjects == loaded.objects
      early == IF file.readable /\ file.text # NotJson
               THEN Property(JSONparse(file.text), "layers")
               ELSE Undefined
      calls == IF user # NullUser
               THEN <<Call("saveLayers", NullId),
                      Call("saveObjectsBatch", NullId)>>
               ELSE <<>>
  IN  IF ~loaded.ok
      THEN /\ layers' = IF early.t = "array" THEN early.items ELSE layers
           /\ UNCHANGED <<objects, activeLayerId, pending, mounted>>
      ELSE IF ~confirmed
      THEN UNCHANGED <<layers, objects, activeLayerId, pending, mounted>>
      ELSE IF loadedLayers.t = "array" /\ loadedObjects.t = "array"
      THEN /\ layers' = loadedLayers.items
           /\ objects' = loadedObjects.items
           /\ activeLayerId' = IF Len(loadedLayers.items) > 0
                               THEN loadedLayers.items[1].id
                               ELSE activeLayerId
           /\ pending' = pending \o calls
           /\ UNCHANGED mounted
      ELSE /\ mounted' = FALSE
           /\ pending' = pending \o calls
           /\ UNCHANGED <<layers, objects, activeLayerId>>

\* App.handleLoadProject.  confirmed: the answer to confirm().  A rejected
\* promise is caught and reported by alert().  setLayers and setObjects with
\* a value that is not an array make the next render throw (layers.map,
\* objects.map): React unmounts the tree, and layers, objects and
\* activeLayerId keep the values of the last commit.
handleLoadProject(file, confirmed) ==
  LET loaded == loadProjectFromFile(file)
      loadedLayers == loaded.layers
      loadedObjects == loaded.objects
      calls == IF user # NullUser
               THEN <<Call("saveLayers", NullId),
                      Call("saveObjectsBatch", NullId)>>
               ELSE <<>>
  IN  IF ~loaded.ok \/ ~confirmed
      THEN UNCHANGED <<layers, objects, activeLayerId, pending, mounted>>
      ELSE IF loadedLayers.t = "array" /\ loadedObjects.t = "array"
      THEN /\ layers' = loadedLayers.items
           /\ objects' = loadedObjects.items
           /\ activeLayerId' = IF Len(loadedLayers.items) > 0
                               THEN loadedLayers.items[1].id
                               ELSE activeLayerId
           /\ pending' = pending \o calls
           /\ UNCHANGED mounted
      ELSE /\ mounted' = FALSE
           /\ pending' = pending \o calls
           /\ UNCHANGED <<layers, objects, activeLayerId>>

(***************************************************************************)
(* The object store facade on its own: the calls that MapBoard's children  *)
(* make through the props onNewObject, onUpdate, updateObjectMeta and      *)
(* onDelete, the layer operations of the sidebar, and the completion of    *)
(* the calls of utils/firebase, with or without a signed-in user.          *)
(***************************************************************************)
Uids == {1}

\* updates: the argument of handleObjectUpdate; call: the function of
\* utils/firebase whose call has settled
StoreEvent(type, id, updates, call) ==
  [type |-> type, mode |-> drawingMode, latlng |-> NullLatLng, id |-> id,
   count |-> 0, handle |-> "none", updates |-> updates, call |-> call]

NoCall == "none"

InitStore ==
  /\ user \in {NullUser} \cup Uids
  /\ mounted = TRUE
  /\ pending = <<>>
  /\ firestore = NoDocuments
  /\ sent = <<>>
  /\ loading = NoLoad
  /\ flyCount = 0
  /\ layers = DEFAULT_LAYERS
  /\ activeLayerId = DEFAULT_LAYERS[1].id
  /\ objects = <<>>
  /\ drawingMode = "none"
  /\ selectedObjectId = NullId
  /\ rulerPoints = <<>>
  /\ flyToTarget = NullTarget
  /\ lastFlyToTime = 0
  /\ tempPoints = <<>>
  /\ circleCenter = NullLatLng
  /\ dragPoint = NullLatLng
  /\ popupId = NullId
  /\ drag = NoDrag
  /\ nextId = 1
  /\ persistLog = <<>>
  /\ setObjectsCalls = 0
  /\ lastEvent = StoreEvent("mount", NullId, <<>>, NoCall)

\* the state that the store operations do not touch
uiVars == <<drawingMode, rulerPoints, flyToTarget, drawVars, popupVars, drag>>

\* the records that the drawing handlers pass to onNewObject
NewObjects == { NewPoint(LatLng(0, 0)), NewCircle(LatLng(0, 0), 7) }

\* the updates that the edit handlers pass to onUpdate
ObjectUpdates ==
  { [position |-> LatLng(10, 20)], [center |-> LatLng(10, 20)],
    [radius |-> 9] }

\* the calls of setObjects do not exceed MaxInput
StoreOpsLeft == setObjectsCalls < MaxInput

\* the calls that a handler adds do not exceed MaxPending
PendingLeft(n) == user # NullUser => Len(pending) + n <= MaxPending

StoreNew(obj) ==
  /\ mounted
  /\ StoreOpsLeft
  /\ PendingLeft(1)
  /\ lastEvent' = StoreEvent("new", obj.id, <<>>, NoCall)
  /\ handleNewObject(obj)
  /\ nextId' = nextId + 1
  /\ UNCHANGED <<cloudVars, user, mounted, layers, activeLayerId, selectedObjectId, uiVars>>
  /\ FlyToEffect

\* onUpdate(id, updates): the id may have left the collection; the updates
\* of an existing record are fields of its type
StoreUpdate(id, updates) ==
  /\ mounted
  /\ StoreOpsLeft
  /\ PendingLeft(1)
  /\ FindIndex(objects, id) # 0 =>
       DOMAIN updates \subseteq DOMAIN objects[FindIndex(objects, id)]
  /\ lastEvent' = StoreEvent("update", id, updates, NoCall)
  /\ handleObjectUpdate(id, updates)
  /\ UNCHANGED <<cloudVars, user, mounted, layers, activeLayerId, selectedObjectId, nextId,
                 uiVars>>
  /\ FlyToEffect

updateObjectMeta(id, title, desc) ==
  handleObjectUpdate(id, [title |-> title, description |-> desc])

StoreMeta(id, title, desc) ==
  /\ mounted
  /\ StoreOpsLeft
  /\ PendingLeft(1)
  /\ lastEvent' = StoreEvent("update", id,
                             [title |-> title, description |-> desc], NoCall)
  /\ updateObjectMeta(id, title, desc)
  /\ UNCHANGED <<cloudVars, user, mounted, layers, activeLayerId, selectedObjectId, nextId,
                 uiVars>>
  /\ FlyToEffect

StoreDelete(id) ==
  /\ mounted
  /\ FindIndex(objects, id) # 0
  /\ StoreOpsLeft
  /\ PendingLeft(1)
  /\ lastEvent' = StoreEvent("delete", id, <<>>, NoCall)
  /\ deleteObject(id)
  /\ UNCHANGED <<cloudVars, user, mounted, layers, activeLayerId, nextId, uiVars>>
  /\ FlyToEffect

ToggleLayer(id) ==
  /\ mounted
  /\ PendingLeft(1)
  /\ lastEvent' = StoreEvent("toggle", id, <<>>, NoCall)
  /\ toggleLayerVisibility(id)
  /\ UNCHANGED <<cloudVars, user, mounted, activeLayerId, objects, nextId, persistLog,
                 setObjectsCalls, selectedObjectId, uiVars, lastFlyToTime,
                 flyCount>>

\* the import of a file with one layer and one point
ImportLayer(c) ==
  /\ mounted
  /\ Len(layers) = Len(DEFAULT_LAYERS)
  /\ StoreOpsLeft
  /\ PendingLeft(2)
  /\ lastEvent' = StoreEvent("import", nextId, <<>>, NoCall)
  /\ handleImportLayer([id |-> Len(layers) + 1, visible |-> TRUE],
                       << [NewPoint(c) EXCEPT !.layerId = Len(layers) + 1] >>)
  /\ nextId' = nextId + 1
  /\ setObjectsCalls' = setObjectsCalls + 1
  /\ UNCHANGED <<cloudVars, user, mounted, persistLog, selectedObjectId, uiVars>>
  /\ FlyToEffect

Settle(i, ok) ==
  /\ lastEvent' = StoreEvent(IF ok THEN "fulfilled" ELSE "rejected",
                             pending[i].id, <<>>, pending[i].fn)
  /\ settle(i, ok)
  /\ UNCHANGED <<cloudVars, user, mounted, nextId, persistLog, setObjectsCalls, uiVars>>
  /\ FlyToEffect

NextStore ==
  \/ \E obj \in NewObjects : StoreNew(obj)
  \/ \E id \in 1..MaxInput, updates \in ObjectUpdates : StoreUpdate(id, updates)
  \/ \E id \in 1..MaxInput : StoreMeta(id, "Title", "Text")
  \/ \E id \in ObjectIds : StoreDelete(id)
  \/ \E k \in 1..Len(layers) : ToggleLayer(layers[k].id)
  \/ \E c \in {LatLng(10, 20)} : ImportLayer(c)
  \/ \E i \in 1..Len(pending), ok \in BOOLEAN : Settle(i, ok)

SpecStore == InitStore /\ [][NextStore]_vars

(***************************************************************************)
(* Project files: the Load Project control of the sidebar, next to the     *)
(* operations that create and remove records.                              *)
(***************************************************************************)
\* a layer and a point of a project file written in another session (their
\* ids are not ids of this session)
FileLayer == [id |-> 103, visible |-> TRUE]

FilePoint(id) ==
  [id |-> id, layerId |-> FileLayer.id, type |-> "point", title |-> "Point",
   description |-> "", position |-> [lat |-> <<"1", "0">>,
                                     lng |-> <<"2", "0">>]]

\* the files that the user selects, besides the one just saved: one that
\* cannot be read, one that is not JSON, the JSON text null, objects whose
\* layers key is missing, whose objects key holds 0, whose keys hold a
\* string and an object, and project files with no, one and two records
ProjectFiles ==
  { [readable |-> FALSE, text |-> NotJson],
    File(NotJson),
    File(JNull),
    File(JObject([version |-> JString("1.0"), objects |-> JArray(<<>>)])),
    File(JObject([layers |-> JArray(<<FileLayer>>),
                  objects |-> JNumber(<<"0">>)])),
    File(JObject([layers |-> JString("x"), objects |-> JObject(<<>>)])),
    File(JObject([layers |-> JArray(<<>>), objects |-> JArray(<<>>)])),
    File(JObject([layers |-> JArray(<<FileLayer>>),
                  objects |-> JArray(<<FilePoint(101)>>)])),
    File(JObject([layers |-> JArray(<<FileLayer>>),
                  objects |-> JArray(<<FilePoint(101), FilePoint(101)>>)])) }

\* file: the selected file; confirmed: the answer to confirm(), which is
\* asked only when the promise is resolved; result: how the promise settled
LoadEvent(file, confirmed) ==
  [type |-> "load", mode |-> drawingMode, latlng |-> NullLatLng,
   id |-> NullId, count |-> 0, handle |-> "none", updates |-> <<>>,
   call |-> NoCall, file |-> file, confirmed |-> confirmed,
   result |-> [ok |-> loadProjectFromFile(file).ok,
               error |-> loadProjectFromFile(file).error]]

\* handleProjectFileChange: onLoadProject(file), with the effect of
\* FlyToController on the new objects
LoadProject(file, confirmed) ==
  /\ mounted
  /\ StoreOpsLeft
  /\ PendingLeft(2)
  /\ ~loadProjectFromFile(file).ok => confirmed
  /\ lastEvent' = LoadEvent(file, confirmed)
  /\ handleLoadProject(file, confirmed)
  /\ setObjectsCalls' = IF loadProjectFromFile(file).ok /\ confirmed
                        THEN setObjectsCalls + 1 ELSE setObjectsCalls
  /\ UNCHANGED <<cloudVars, user, nextId, persistLog, selectedObjectId, uiVars>>
  /\ FlyToEffect

NextProject ==
  \/ \E obj \in NewObjects : StoreNew(obj)
  \/ \E id \in ObjectIds : StoreDelete(id)
  \/ \E c \in {LatLng(10, 20)} : ImportLayer(c)
  \/ \E file \in ProjectFiles \cup {saveProjectToFile(layers, objects, 0)},
        confirmed \in BOOLEAN : LoadProject(file, confirmed)
  \/ \E i \in 1..Len(pending), ok \in BOOLEAN : Settle(i, ok)

SpecProject == InitStore /\ [][NextProject]_vars

(***************************************************************************)
(* geoUtils.ts: formatDistance.  Its argument is a distance in thousandths *)
(* of a meter; its result is a sequence of characters.                     *)
(***************************************************************************)
\* the digits of n, padded with zeros on the left to the given width
RECURSIVE PadDigits(_, _)
PadDigits(n, width) ==
  IF width = 0 THEN <<>>
  ELSE PadDigits(n \div 10, width - 1) \o <<DigitChar(n % 10)>>

\* Number.prototype.toFixed on num / den >= 0: the texts it can give.  The
\* double nearest to a decimal that lies halfway between two neighbours
\* lies on either side of it, so both neighbours are possible there.
toFixed(num, den, fractionDigits) ==
  LET scaled == num * Pow10(fractionDigits)
      lower == scaled \div den
      rest == scaled % den
      rounded == IF 2 * rest < den THEN {lower}
                 ELSE IF 2 * rest > den THEN {lower + 1}
                 ELSE {lower, lower + 1}
  IN  { ToDigits(n \div Pow10(fractionDigits)) \o <<".">>
          \o PadDigits(n % Pow10(fractionDigits), fractionDigits) :
        n \in rounded }

\* variant of formatDistance: meters > 1000
formatDistanceStrict(meters) ==
  IF meters > 1000 * 1000
  THEN { text \o <<" ", "k", "m">> : text \in toFixed(meters, 1000000, 2) }
  ELSE { text \o <<" ", "m">> : text \in toFixed(meters, 1000, 1) }

formatDistance(meters) ==
  IF meters >= 1000 * 1000
  THEN { text \o <<" ", "k", "m">> : text \in toFixed(meters, 1000000, 2) }
  ELSE { text \o <<" ", "m">> : text \in toFixed(meters, 1000, 1) }

(***************************************************************************)
(* The functions of geoUtils.ts on their own: each step is one call, with  *)
(* arguments drawn from the sets below; lastEvent holds the call and its   *)
(* result.                                                                 *)
(***************************************************************************)
\* the length of the paths
MaxPathLen == 3

GeoCoords == {LatLng(la, ln) : la \in {-10, 0, 10}, ln \in {0, 20, 50}}

PathCoords == {LatLng(0, 0), LatLng(10, 10), LatLng(-10, 20), LatLng(10, 20)}

RECURSIVE SeqsUpTo(_, _)
SeqsUpTo(S, n) ==
  IF n = 0 THEN {<<>>}
  ELSE SeqsUpTo(S, n - 1)
         \cup {Append(ps, p) : ps \in SeqsUpTo(S, n - 1), p \in S}

Paths == SeqsUpTo(PathCoords, MaxPathLen)

\* the points of the sequences given to getCentroid: small coordinates, and
\* a longitude at which the sum with another coordinate is not a number
CentroidCoords ==
  {LatLng(0, 0), LatLng(10, 10), LatLng(1, 1), LatLng(-10, Pow2(Precision))}

CentroidPaths == SeqsUpTo(CentroidCoords, MaxPathLen)

\* distances in thousandths of a meter, on both sides of the values at
\* which the unit and the rounding change
Distances ==
  { 0, 40, 50, 500000, 999000, 999940, 999950, 999999, 1000000, 1000001,
    1004999, 1005000, 1500000, 1234567, 12345678 }

\* a call that has not been evaluated yet, and one that has
GeoInput(fn, args) == [type |-> fn, args |-> args, done |-> FALSE]

GeoCall(fn, args, result) ==
  [type |-> fn, args |-> args, done |-> TRUE, result |-> result]

GeoInputs ==
  {GeoInput("calculateDistance", <<p, q>>) : p \in GeoCoords, q \in GeoCoords}
    \cup {GeoInput("calculatePathLength", <<positions>>) : positions \in Paths}
    \cup {GeoInput("getCentroid", <<positions>>) : positions \in CentroidPaths}
    \cup {GeoInput("formatDistance", <<meters>>) : meters \in Distances}

InitGeo ==
  /\ user = NullUser
  /\ mounted = TRUE
  /\ pending = <<>>
  /\ firestore = NoDocuments
  /\ sent = <<>>
  /\ loading = NoLoad
  /\ flyCount = 0
  /\ layers = DEFAULT_LAYERS
  /\ activeLayerId = DEFAULT_LAYERS[1].id
  /\ objects = <<>>
  /\ drawingMode = "none"
  /\ selectedObjectId = NullId
  /\ rulerPoints = <<>>
  /\ flyToTarget = NullTarget
  /\ lastFlyToTime = 0
  /\ tempPoints = <<>>
  /\ circleCenter = NullLatLng
  /\ dragPoint = NullLatLng
  /\ popupId = NullId
  /\ drag = NoDrag
  /\ nextId = 1
  /\ persistLog = <<>>
  /\ setObjectsCalls = 0
  /\ lastEvent \in GeoInputs

CallCalculateDistance ==
  /\ lastEvent.type = "calculateDistance" /\ ~lastEvent.done
  /\ LET p == lastEvent.args[1]
         q == lastEvent.args[2]
     IN  lastEvent' = GeoCall(lastEvent.type, lastEvent.args,
                              calculateDistance(p.lat, p.lng, q.lat, q.lng))
  /\ UNCHANGED <<cloudVars, appVars, drawVars, popupVars, storeVars, drag>>

CallCalculatePathLength ==
  /\ lastEvent.type = "calculatePathLength" /\ ~lastEvent.done
  /\ lastEvent' = GeoCall(lastEvent.type, lastEvent.args,
                          calculatePathLength(lastEvent.args[1]))
  /\ UNCHANGED <<cloudVars, appVars, drawVars, popupVars, storeVars, drag>>

CallGetCentroid ==
  /\ lastEvent.type = "getCentroid" /\ ~lastEvent.done
  /\ lastEvent' = GeoCall(lastEvent.type, lastEvent.args,
                          getCentroid(lastEvent.args[1]))
  /\ UNCHANGED <<cloudVars, appVars, drawVars, popupVars, storeVars, drag>>

CallFormatDistance ==
  /\ lastEvent.type = "formatDistance" /\ ~lastEvent.done
  /\ \E text \in formatDistance(lastEvent.args[1]) :
       lastEvent' = GeoCall(lastEvent.type, lastEvent.args, text)
  /\ UNCHANGED <<cloudVars, appVars, drawVars, popupVars, storeVars, drag>>

NextGeo ==
  \/ CallCalculateDistance
  \/ CallCalculatePathLength
  \/ CallGetCentroid
  \/ CallFormatDistance

SpecGeo == InitGeo /\ [][NextGeo]_vars

(***************************************************************************)
(* The drag handles of an imported shape: a polyline or polygon of a file  *)
(* (extractObjectsFromGeometry) with as many points as the file gives it,  *)
(* selected and dragged by its handles.                                    *)
(***************************************************************************)
\* the numbers of points of the imported shape, on both sides of the limit
ShapeSizes == {3, VERTEX_LIMIT, VERTEX_LIMIT + 1}

\* the record that the import makes of a LineString or Polygon of n points
ImportedShape(type, n) ==
  [id |-> 1, layerId |-> DEFAULT_LAYERS[1].id, type |-> type,
   title |-> "Untitled Object", description |-> "",
   positions |-> [k \in 1..n |-> LatLng(k % 2, k % 3)]]

InitHandles ==
  /\ user = NullUser
  /\ mounted = TRUE
  /\ pending = <<>>
  /\ firestore = NoDocuments
  /\ sent = <<>>
  /\ loading = NoLoad
  /\ flyCount = 0
  /\ layers = DEFAULT_LAYERS
  /\ activeLayerId = DEFAULT_LAYERS[1].id
  /\ \E type \in {"polyline", "polygon"}, n \in ShapeSizes :
       objects = <<ImportedShape(type, n)>>
  /\ drawingMode = "none"
  /\ selectedObjectId = NullId
  /\ rulerPoints = <<>>
  /\ flyToTarget = NullTarget
  /\ lastFlyToTime = 0
  /\ tempPoints = <<>>
  /\ circleCenter = NullLatLng
  /\ dragPoint = NullLatLng
  /\ popupId = NullId
  /\ drag = NoDrag
  /\ nextId = 2
  /\ persistLog = <<>>
  /\ setObjectsCalls = 0
  /\ lastEvent = [type |-> "mount", mode |-> "none", latlng |-> NullLatLng,
                  id |-> NullId, count |-> 0, handle |-> "none"]

\* the indices at which a handle is tried: the first vertex, and the last
\* one of a shape at and above the limit (0: the handle has no index)
HandleIndices == {0, 1, VERTEX_LIMIT, VERTEX_LIMIT + 1}

NextHandles ==
  \/ \E id \in ObjectIds : ObjectClick(id)
  \/ \E id \in ObjectIds, handle \in Handles, idx \in HandleIndices :
       DragStart(id, handle, idx)
  \/ \E newPos \in Coords : Drag(newPos)
  \/ DragEnd

SpecHandles == InitHandles /\ [][NextHandles]_vars

(***************************************************************************)
(* utils/firebase: the documents of a user in Firestore.  A write reaches  *)
(* the documents when its promise is fulfilled; a rejected write leaves    *)
(* them as they are.                                                       *)
(***************************************************************************)
\* setDoc(doc(db, 'users', uid, 'mapObjects', obj.id), obj)
SetDoc(mapObjects, obj) == {d \in mapObjects : d.id # obj.id} \cup {obj}

\* deleteDoc(doc(db, 'users', uid, 'mapObjects', objId))
DeleteDoc(mapObjects, objId) == {d \in mapObjects : d.id # objId}

\* writeBatch(db), batch.set(ref, obj) for each obj of the chunk, and
\* batch.commit(): the last set of a reference is the one that stays
CommitBatch(mapObjects, chunk) ==
  {d \in mapObjects : \A k \in 1..Len(chunk) : chunk[k].id # d.id}
  \cup {chunk[k] : k \in {j \in 1..Len(chunk) :
                            \A l \in (j + 1)..Len(chunk) :
                              chunk[l].id # chunk[j].id}}

\* the size of the chunks of saveObjectsBatch
ChunkSize == 450

\* chunkArray(arr, size)[n] (n = 1, 2, ...): arr.slice(i, i + size) for
\* i = (n - 1) * size
chunkArray(arr, size, n) ==
  SubSeq(arr, (n - 1) * size + 1,
         IF n * size < Len(arr) THEN n * size ELSE Len(arr))

\* chunkArray(arr, size).length
ChunkCount(arr, size) == (Len(arr) + size - 1) \div size

\* what a call of utils/firebase carries: data holds the object of
\* saveObject, the layers of saveLayers, the objects of saveObjectsBatch
Document(fn, id, data) == [fn |-> fn, id |-> id, data |-> data]

\* the documents after the call that carries doc has been fulfilled (the
\* objects of a call of saveObjectsBatch fit in one chunk)
Written(fs, doc) ==
  IF doc.fn = "saveObject"
  THEN [fs EXCEPT !.mapObjects = SetDoc(@, doc.data[1])]
  ELSE IF doc.fn = "deleteObject"
  THEN [fs EXCEPT !.mapObjects = DeleteDoc(@, doc.id)]
  ELSE IF doc.fn = "saveLayers"
  THEN [fs EXCEPT !.hasLayers = TRUE, !.layers = doc.data]
  ELSE [fs EXCEPT !.mapObjects = CommitBatch(@, doc.data)]

\* objsSnap.docs.map(d => d.data()): the documents in the order of their ids
DocsInOrder(mapObjects) ==
  IF mapObjects = {} THEN <<>>
  ELSE LET ids == {d.id : d \in mapObjects}
           lowest == CHOOSE x \in ids : \A y \in ids : x <= y
           highest == CHOOSE x \in ids : \A y \in ids : x >= y
           ordered == SelectSeq([k \in 1..(highest - lowest + 1) |->
                                   lowest + k - 1],
                                LAMBDA x : x \in ids)
       IN  [k \in 1..Len(ordered) |->
              CHOOSE d \in mapObjects : d.id = ordered[k]]

(***************************************************************************)
(* App: the layer handlers.  A handler reads layers, objects, activeLayerId *)
(* and user from the render in which it was created.                       *)
(***************************************************************************)
\* the ids of the layers
LayerIds(ls) == {ls[k].id : k \in 1..Len(ls)}

\* variant of IntegrityEffect: the effect does nothing
IntegrityEffectOff(ls, active) == active

\* the effect on [layers, activeLayerId]: "Ensure active layer always
\* exists locally"
IntegrityEffect(ls, active) ==
  IF Len(ls) > 0 /\ \A k \in 1..Len(ls) : ls[k].id # active
  THEN ls[1].id ELSE active

\* layers.filter(l => l.id !== id)
RECURSIVE FilterOutLayer(_, _)
FilterOutLayer(ls, id) ==
  IF ls = <<>> THEN <<>>
  ELSE IF Head(ls).id = id THEN FilterOutLayer(Tail(ls), id)
       ELSE <<Head(ls)>> \o FilterOutLayer(Tail(ls), id)

\* objects.filter(o => o.layerId !== id)
RECURSIVE objectsToKeep(_, _)
objectsToKeep(objs, id) ==
  IF objs = <<>> THEN <<>>
  ELSE IF Head(objs).layerId = id THEN objectsToKeep(Tail(objs), id)
       ELSE <<Head(objs)>> \o objectsToKeep(Tail(objs), id)

\* objects.filter(o => o.layerId === id)
RECURSIVE objectsToDelete(_, _)
objectsToDelete(objs, id) ==
  IF objs = <<>> THEN <<>>
  ELSE IF Head(objs).layerId = id
       THEN <<Head(objs)>> \o objectsToDelete(Tail(objs), id)
       ELSE objectsToDelete(Tail(objs), id)

\* the calls of handleDeleteLayer(id): saveLayers(user.uid, newLayers) and
\* deleteObject(user.uid, obj.id) for each of objectsToDelete
DeleteLayerCalls(objs, id) ==
  IF user = NullUser THEN <<>>
  ELSE <<Call("saveLayers", NullId)>>
       \o [k \in 1..Len(objectsToDelete(objs, id)) |->
             Call("deleteObject", objectsToDelete(objs, id)[k].id)]

DeleteLayerDocuments(ls, objs, id) ==
  IF user = NullUser THEN <<>>
  ELSE <<Document("saveLayers", NullId, FilterOutLayer(ls, id))>>
       \o [k \in 1..Len(objectsToDelete(objs, id)) |->
             Document("deleteObject", objectsToDelete(objs, id)[k].id, <<>>)]

\* if (user): the documents of the calls that a handler makes
Carried(docs) == IF user # NullUser THEN docs ELSE <<>>

\* crypto.randomUUID() as the id of a layer: none of the ids of
\* DEFAULT_LAYERS, of an imported layer or of a layer of a file
NewLayerId == nextId + Len(DEFAULT_LAYERS) + 1

\* App.addLayer, and the effect on [layers, activeLayerId] of the render
\* that follows
addLayer ==
  LET newId == NewLayerId
      newLayers == Append(layers, [id |-> newId, visible |-> TRUE])
  IN  /\ layers' = newLayers
      /\ activeLayerId' = IntegrityEffect(newLayers, newId)
      /\ pending' = pending \o saveLayersIfUser(newLayers)

\* variant of handleDeleteLayer: the last layer can be deleted
handleDeleteLayerAny(id) ==
  IF Len(layers) < 1
  THEN UNCHANGED <<layers, objects, activeLayerId, pending,
                   setObjectsCalls>>
  ELSE LET newLayers == FilterOutLayer(layers, id)
       IN  /\ layers' = newLayers
           /\ objects' = objectsToKeep(objects, id)
           /\ setObjectsCalls' = setObjectsCalls + 1
           /\ activeLayerId' =
                IntegrityEffect(newLayers,
                                IF activeLayerId = id /\ newLayers # <<>>
                                THEN newLayers[1].id
                                ELSE activeLayerId)
           /\ pending' = pending \o DeleteLayerCalls(objects, id)

\* variant of handleDeleteLayer: the objects of the layer stay
handleDeleteLayerKeepsObjects(id) ==
  IF Len(layers) <= 1
  THEN UNCHANGED <<layers, objects, activeLayerId, pending,
                   setObjectsCalls>>
  ELSE LET newLayers == FilterOutLayer(layers, id)
       IN  /\ layers' = newLayers
           /\ objects' = objects
           /\ setObjectsCalls' = setObjectsCalls + 1
           /\ activeLayerId' =
                IntegrityEffect(newLayers,
                                IF activeLayerId = id THEN newLayers[1].id
                                ELSE activeLayerId)
           /\ pending' = pending \o saveLayersIfUser(newLayers)

\* App.handleDeleteLayer, and the effect on [layers, activeLayerId] of the
\* render that follows
handleDeleteLayer(id) ==
  IF Len(layers) <= 1
  THEN UNCHANGED <<layers, objects, activeLayerId, pending,
                   setObjectsCalls>>
  ELSE LET newLayers == FilterOutLayer(layers, id)
       IN  /\ layers' = newLayers
           /\ objects' = objectsToKeep(objects, id)
           /\ setObjectsCalls' = setObjectsCalls + 1
           /\ activeLayerId' =
                IntegrityEffect(newLayers,
                                IF activeLayerId = id THEN newLayers[1].id
                                ELSE activeLayerId)
           /\ pending' = pending \o DeleteLayerCalls(objects, id)

\* handleDeleteLayer(first) and handleDeleteLayer(second) of one render:
\* both read the same layers, objects and activeLayerId; the values of the
\* second setLayers and setObjects are the ones that stay, and
\* setActiveLayerId is called by each call whose id is the active one
handleDeleteLayerTwice(first, second) ==
  IF Len(layers) <= 1
  THEN UNCHANGED <<layers, objects, activeLayerId, pending,
                   setObjectsCalls>>
  ELSE LET firstLayers == FilterOutLayer(layers, first)
           newLayers == FilterOutLayer(layers, second)
           afterFirst == IF activeLayerId = first THEN firstLayers[1].id
                         ELSE activeLayerId
       IN  /\ layers' = newLayers
           /\ objects' = objectsToKeep(objects, second)
           /\ setObjectsCalls' = setObjectsCalls + 2
           /\ activeLayerId' =
                IntegrityEffect(newLayers,
                                IF activeLayerId = second
                                THEN newLayers[1].id ELSE afterFirst)
           /\ pending' = pending \o DeleteLayerCalls(objects, first)
                           \o DeleteLayerCalls(objects, second)

\* layers.map(l => l.id === updatedLayer.id ? updatedLayer : l)
ReplaceLayer(ls, updatedLayer) ==
  [k \in 1..Len(ls) |->
     IF ls[k].id = updatedLayer.id THEN updatedLayer ELSE ls[k]]

\* App.updateLayer
updateLayer(updatedLayer) ==
  LET newLayers == ReplaceLayer(layers, updatedLayer)
  IN  /\ layers' = newLayers
      /\ activeLayerId' = IntegrityEffect(newLayers, activeLayerId)
      /\ pending' = pending \o saveLayersIfUser(newLayers)

\* handleObjectUpdate(id, first) and handleObjectUpdate(id, second) of one
\* render: both read the same objects, so each updatedObject is the target
\* of that render with its own updates; the updaters of setObjects run in
\* the order of the calls
handleObjectUpdateTwice(id, first, second) ==
  LET i == FindIndex(objects, id)
      firstObject == Spread(objects[i], first)
      updatedObject == Spread(objects[i], second)
  IN  IF i = 0 THEN NoStoreChange
      ELSE /\ objects' = [k \in 1..Len(objects) |->
                            IF objects[k].id = id THEN updatedObject
                            ELSE objects[k]]
           /\ setObjectsCalls' = setObjectsCalls + 2
           /\ persistLog' =
                Append(Append(persistLog,
                              [op |-> "update", id |-> firstObject.id,
                               size |-> 1]),
                       [op |-> "update", id |-> updatedObject.id,
                        size |-> 1])
           /\ pending' = IF user # NullUser
                         THEN pending \o <<Call("saveObject", firstObject.id),
                                           Call("saveObject", updatedObject.id)>>
                         ELSE pending

(***************************************************************************)
(* The handlers of App and of the object store, with the documents that    *)
(* their calls of utils/firebase carry.                                    *)
(***************************************************************************)
AppNew(obj) ==
  /\ mounted
  /\ StoreOpsLeft
  /\ PendingLeft(1)
  /\ lastEvent' = StoreEvent("new", obj.id, <<>>, NoCall)
  /\ handleNewObject(obj)
  /\ sent' = sent \o Carried(<<Document("saveObject", obj.id, <<obj>>)>>)
  /\ nextId' = nextId + 1
  /\ UNCHANGED <<firestore, loading, user, mounted, layers, activeLayerId,
                 selectedObjectId, uiVars>>
  /\ FlyToEffect

\* two calls of the props onUpdate and updateObjectMeta for the same object
\* before the next render
AppUpdateTwice(id, first, second) ==
  /\ mounted
  /\ setObjectsCalls + 1 < MaxInput
  /\ PendingLeft(2)
  /\ FindIndex(objects, id) # 0
  /\ (DOMAIN first \cup DOMAIN second)
       \subseteq DOMAIN objects[FindIndex(objects, id)]
  /\ lastEvent' = StoreEvent("updateTwice", id, <<first, second>>, NoCall)
  /\ handleObjectUpdateTwice(id, first, second)
  /\ LET target == objects[FindIndex(objects, id)]
     IN  sent' = sent \o Carried(<<Document("saveObject", id,
                                            <<Spread(target, first)>>),
                                   Document("saveObject", id,
                                            <<Spread(target, second)>>)>>)
  /\ UNCHANGED <<firestore, loading, user, mounted, layers, activeLayerId,
                 selectedObjectId, nextId, uiVars>>
  /\ FlyToEffect

AppDelete(id) ==
  /\ mounted
  /\ FindIndex(objects, id) # 0
  /\ StoreOpsLeft
  /\ PendingLeft(1)
  /\ lastEvent' = StoreEvent("delete", id, <<>>, NoCall)
  /\ deleteObject(id)
  /\ sent' = sent \o Carried(<<Document("deleteObject", id, <<>>)>>)
  /\ UNCHANGED <<firestore, loading, user, mounted, layers, activeLayerId,
                 nextId, uiVars>>
  /\ FlyToEffect

\* the add button of the sidebar
AddLayer ==
  /\ mounted
  /\ nextId <= MaxInput
  /\ PendingLeft(1)
  /\ lastEvent' = StoreEvent("addLayer", NewLayerId, <<>>, NoCall)
  /\ addLayer
  /\ sent' = sent \o Carried(<<Document("saveLayers", NullId, layers')>>)
  /\ nextId' = nextId + 1
  /\ UNCHANGED <<firestore, loading, user, mounted, objects, persistLog,
                 setObjectsCalls, selectedObjectId, uiVars, lastFlyToTime,
                 flyCount>>

\* the delete button of a layer of the sidebar
DeleteLayer(id) ==
  /\ mounted
  /\ StoreOpsLeft
  /\ PendingLeft(Len(DeleteLayerCalls(objects, id)))
  /\ lastEvent' = StoreEvent("deleteLayer", id, <<>>, NoCall)
  /\ handleDeleteLayer(id)
  /\ sent' = IF Len(layers) <= 1 THEN sent
             ELSE sent \o DeleteLayerDocuments(layers, objects, id)
  /\ UNCHANGED <<firestore, loading, user, mounted, selectedObjectId, nextId,
                 persistLog, uiVars>>
  /\ FlyToEffect

\* the delete buttons of two layers of one render
DeleteLayerTwice(first, second) ==
  /\ mounted
  /\ Len(layers) > 1
  /\ setObjectsCalls + 1 < MaxInput
  /\ PendingLeft(Len(DeleteLayerCalls(objects, first))
                 + Len(DeleteLayerCalls(objects, second)))
  /\ lastEvent' = StoreEvent("deleteLayerTwice", second, <<first, second>>,
                             NoCall)
  /\ handleDeleteLayerTwice(first, second)
  /\ sent' = sent \o DeleteLayerDocuments(layers, objects, first)
               \o DeleteLayerDocuments(layers, objects, second)
  /\ UNCHANGED <<firestore, loading, user, mounted, selectedObjectId, nextId,
                 persistLog, uiVars>>
  /\ FlyToEffect

\* the visibility button of a layer of the sidebar
AppToggle(id) ==
  /\ mounted
  /\ PendingLeft(1)
  /\ lastEvent' = StoreEvent("toggle", id, <<>>, NoCall)
  /\ toggleLayerVisibility(id)
  /\ sent' = sent \o Carried(<<Document("saveLayers", NullId, layers')>>)
  /\ UNCHANGED <<firestore, loading, user, mounted, activeLayerId, objects,
                 nextId, persistLog, setObjectsCalls, selectedObjectId, uiVars,
                 lastFlyToTime, flyCount>>

\* the style editor of a layer of the sidebar
UpdateLayer(updatedLayer) ==
  /\ mounted
  /\ PendingLeft(1)
  /\ lastEvent' = StoreEvent("updateLayer", updatedLayer.id, <<>>, NoCall)
  /\ updateLayer(updatedLayer)
  /\ sent' = sent \o Carried(<<Document("saveLayers", NullId, layers')>>)
  /\ UNCHANGED <<firestore, loading, user, mounted, objects, nextId,
                 persistLog, setObjectsCalls, selectedObjectId, uiVars,
                 lastFlyToTime, flyCount>>

\* the promise of the call pending[i] is fulfilled (ok) or rejected, and
\* Firestore has or has not taken the document it carries
AppSettle(i, ok) ==
  /\ lastEvent' = StoreEvent(IF ok THEN "fulfilled" ELSE "rejected",
                             pending[i].id, <<>>, pending[i].fn)
  /\ settle(i, ok)
  /\ sent' = RemoveAt(sent, i)
  /\ firestore' = IF ok THEN Written(firestore, sent[i]) ELSE firestore
  /\ UNCHANGED <<loading, user, mounted, nextId, persistLog, setObjectsCalls,
                 uiVars>>
  /\ FlyToEffect

\* the layer handlers of a guest, called once or twice before the next
\* render, next to the drawing of records
InitRender ==
  /\ InitStore
  /\ user = NullUser

NextRender ==
  \/ \E obj \in NewObjects : AppNew(obj)
  \/ AddLayer
  \/ \E k \in 1..Len(layers) : DeleteLayer(layers[k].id)
  \/ \E k \in 1..Len(layers), l \in 1..Len(layers) :
       DeleteLayerTwice(layers[k].id, layers[l].id)
  \/ \E k \in 1..Len(layers) : AppToggle(layers[k].id)
  \/ \E k \in 1..Len(layers), visible \in BOOLEAN :
       UpdateLayer([id |-> layers[k].id, visible |-> visible])

SpecRender == InitRender /\ [][NextRender]_vars

(***************************************************************************)
(* App: the auth listener, and utils/firebase.loadUserData.                *)
(***************************************************************************)
\* a call of utils/firebase made with the uid of the callback's currentUser
CallOf(fn, uid) == [fn |-> fn, uid |-> uid, id |-> NullId]

\* onAuthStateChanged calls back with a user: setUser(currentUser), and
\* loadUserData(currentUser.uid) starts with getDoc(userDocRef)
SignIn(uid) ==
  /\ mounted
  /\ user = NullUser
  /\ loading.stage = "none"
  /\ lastEvent' = StoreEvent("signIn", NullId, <<>>, NoCall)
  /\ user' = uid
  /\ loading' = [NoLoad EXCEPT !.stage = "getDoc", !.uid = uid,
                              !.since = nextId]
  /\ UNCHANGED <<firestore, sent, mounted, layers, activeLayerId,
                 selectedObjectId, storeVars, uiVars, lastFlyToTime, flyCount>>

\* onAuthStateChanged calls back with null: "Reset to defaults if logged
\* out"
SignOut ==
  /\ mounted
  /\ user # NullUser
  /\ StoreOpsLeft
  /\ lastEvent' = StoreEvent("signOut", NullId, <<>>, NoCall)
  /\ user' = NullUser
  /\ layers' = DEFAULT_LAYERS
  /\ objects' = <<>>
  /\ setObjectsCalls' = setObjectsCalls + 1
  /\ activeLayerId' = IntegrityEffect(DEFAULT_LAYERS, DEFAULT_LAYERS[1].id)
  /\ UNCHANGED <<cloudVars, mounted, selectedObjectId, pending, nextId,
                 persistLog, uiVars>>
  /\ FlyToEffect

\* loadUserData: getDoc(userDocRef) settles.  Fulfilled: layers is
\* data.layers || null, legacyObjects is data.objects if it is a non-empty
\* array, and getDocs(objsRef) starts.  Rejected: the callback catches it.
GetDoc(ok) ==
  /\ loading.stage = "getDoc"
  /\ lastEvent' = StoreEvent(IF ok THEN "fulfilled" ELSE "rejected", NullId,
                             <<>>, "getDoc")
  /\ loading' = IF ok
                THEN [loading EXCEPT !.stage = "getDocs",
                                     !.hasLayers = firestore.hasLayers,
                                     !.layers = firestore.layers,
                                     !.legacyObjects = firestore.objects]
                ELSE NoLoad
  /\ UNCHANGED <<firestore, sent, appVars, storeVars, uiVars>>

\* the activeLayerId that the callback of the auth listener reads: the
\* effect has no dependencies, so it is the one of the first render
MountActiveLayerId == DEFAULT_LAYERS[1].id

\* "Fix active layer if it disappeared":
\* if (!data.layers.find(l => l.id === activeLayerId))
\*   setActiveLayerId(data.layers[0]?.id || DEFAULT_LAYERS[0].id)
LoadedActiveLayerId(ls) ==
  IF \A k \in 1..Len(ls) : ls[k].id # MountActiveLayerId
  THEN (IF Len(ls) > 0 THEN ls[1].id ELSE DEFAULT_LAYERS[1].id)
  ELSE activeLayerId

\* loadUserData: getDocs(objsRef) is fulfilled, the migration of the legacy
\* objects starts with saveObjectsBatch, loadUserData returns, and the
\* callback of the auth listener sets layers, activeLayerId and objects
GetDocsFulfilled ==
  LET subObjects == DocsInOrder(firestore.mapObjects)
      data == [layers |-> loading.layers,
               objects |-> subObjects \o loading.legacyObjects]
  IN  /\ IF loading.hasLayers
         THEN /\ layers' = data.layers
              /\ activeLayerId' =
                   IntegrityEffect(data.layers,
                                   LoadedActiveLayerId(data.layers))
              /\ UNCHANGED <<pending, sent>>
         ELSE /\ pending' = Append(pending, CallOf("saveLayers", loading.uid))
              /\ sent' = Append(sent, Document("saveLayers", NullId,
                                               DEFAULT_LAYERS))
              /\ UNCHANGED <<layers, activeLayerId>>
      /\ objects' = data.objects
      /\ setObjectsCalls' = setObjectsCalls + 1
      /\ loading' = IF loading.legacyObjects # <<>>
                    THEN [loading EXCEPT !.stage = "migrating"]
                    ELSE NoLoad

GetDocs(ok) ==
  /\ loading.stage = "getDocs"
  /\ lastEvent' = StoreEvent(IF ok THEN "fulfilled" ELSE "rejected", NullId,
                             <<>>, "getDocs")
  /\ IF ok THEN GetDocsFulfilled
     ELSE /\ loading' = NoLoad
          /\ UNCHANGED <<layers, activeLayerId, objects, setObjectsCalls,
                         pending, sent>>
  /\ UNCHANGED <<firestore, user, mounted, selectedObjectId, nextId,
                 persistLog, uiVars>>
  /\ FlyToEffect

\* variant of CommitChunk: the objects field is deleted with the first
\* commit
CommitChunkDeletesField(ok) ==
  LET chunks == ChunkCount(loading.legacyObjects, ChunkSize)
      chunk == chunkArray(loading.legacyObjects, ChunkSize, loading.chunk + 1)
  IN  /\ loading.stage = "migrating"
      /\ lastEvent' = StoreEvent(IF ok THEN "fulfilled" ELSE "rejected",
                                 loading.chunk + 1, <<>>, "commit")
      /\ firestore' =
           IF ok THEN [firestore EXCEPT
                         !.mapObjects = CommitBatch(@, chunk),
                         !.objects = <<>>]
           ELSE firestore
      /\ loading' =
           IF ~ok THEN [loading EXCEPT !.stage = "none"]
           ELSE [loading EXCEPT
                   !.chunk = @ + 1,
                   !.stage = IF loading.chunk + 1 = chunks
                             THEN "updateDoc" ELSE "migrating"]
      /\ UNCHANGED <<sent, appVars, storeVars, uiVars>>

\* saveObjectsBatch(uid, legacyObjects): batch.commit() of the next chunk
\* settles.  Fulfilled: the loop goes on, and after the last chunk the
\* promise is fulfilled and updateDoc starts.  Rejected: the promise is
\* rejected, and .catch logs "Migration failed".
CommitChunk(ok) ==
  LET chunks == ChunkCount(loading.legacyObjects, ChunkSize)
      chunk == chunkArray(loading.legacyObjects, ChunkSize, loading.chunk + 1)
  IN  /\ loading.stage = "migrating"
      /\ lastEvent' = StoreEvent(IF ok THEN "fulfilled" ELSE "rejected",
                                 loading.chunk + 1, <<>>, "commit")
      /\ firestore' =
           IF ok THEN [firestore EXCEPT !.mapObjects = CommitBatch(@, chunk)]
           ELSE firestore
      /\ loading' =
           IF ~ok THEN [loading EXCEPT !.stage = "none"]
           ELSE [loading EXCEPT
                   !.chunk = @ + 1,
                   !.stage = IF loading.chunk + 1 = chunks
                             THEN "updateDoc" ELSE "migrating"]
      /\ UNCHANGED <<sent, appVars, storeVars, uiVars>>

\* updateDoc(userDocRef, { objects: deleteField() }) settles
UpdateDoc(ok) ==
  /\ loading.stage = "updateDoc"
  /\ lastEvent' = StoreEvent(IF ok THEN "fulfilled" ELSE "rejected", NullId,
                             <<>>, "updateDoc")
  /\ firestore' = IF ok THEN [firestore EXCEPT !.objects = <<>>]
                  ELSE firestore
  /\ loading' = [loading EXCEPT !.stage = "none"]
  /\ UNCHANGED <<sent, appVars, storeVars, uiVars>>

(***************************************************************************)
(* App with a Firestore behind it: a guest signs in and out, draws,        *)
(* deletes, imports and loads a project while loadUserData and the writes  *)
(* of utils/firebase are in flight.                                        *)
(***************************************************************************)
\* a record that an earlier session has saved
CloudPoint(id, layerId) ==
  [id |-> id, layerId |-> layerId, type |-> "point", title |-> "New Point",
   description |-> "No description", position |-> LatLng(10, 20)]

\* the documents that the user has when the session starts: none; layers
\* and one record of mapObjects; layers and one record in the objects field
\* of users/{uid}
CloudContents ==
  { NoDocuments,
    [hasLayers |-> TRUE, layers |-> DEFAULT_LAYERS, objects |-> <<>>,
     mapObjects |-> {CloudPoint(105, DEFAULT_LAYERS[1].id)}],
    [hasLayers |-> TRUE, layers |-> <<FileLayer>>,
     objects |-> <<CloudPoint(106, FileLayer.id)>>, mapObjects |-> {}] }

\* the first render of a guest, with Firestore holding one of contents
InitWith(contents) ==
  /\ user = NullUser
  /\ mounted = TRUE
  /\ pending = <<>>
  /\ firestore \in contents
  /\ sent = <<>>
  /\ loading = NoLoad
  /\ flyCount = 0
  /\ layers = DEFAULT_LAYERS
  /\ activeLayerId = DEFAULT_LAYERS[1].id
  /\ objects = <<>>
  /\ drawingMode = "none"
  /\ selectedObjectId = NullId
  /\ rulerPoints = <<>>
  /\ flyToTarget = NullTarget
  /\ lastFlyToTime = 0
  /\ tempPoints = <<>>
  /\ circleCenter = NullLatLng
  /\ dragPoint = NullLatLng
  /\ popupId = NullId
  /\ drag = NoDrag
  /\ nextId = 1
  /\ persistLog = <<>>
  /\ setObjectsCalls = 0
  /\ lastEvent = StoreEvent("mount", NullId, <<>>, NoCall)

InitApp == InitWith(CloudContents)

\* the import of a file with one layer and one point
AppImport(c) ==
  LET newLayer == [id |-> Len(layers) + 1, visible |-> TRUE]
      newObjects == << [NewPoint(c) EXCEPT !.layerId = Len(layers) + 1] >>
  IN  /\ mounted
      /\ Len(layers) = Len(DEFAULT_LAYERS)
      /\ newLayer.id \notin LayerIds(layers)
      /\ StoreOpsLeft
      /\ PendingLeft(2)
      /\ lastEvent' = StoreEvent("import", nextId, <<>>, NoCall)
      /\ handleImportLayer(newLayer, newObjects)
      /\ sent' = sent \o Carried(<<Document("saveLayers", NullId,
                                            Append(layers, newLayer)),
                                   Document("saveObjectsBatch", NullId,
                                            newObjects)>>)
      /\ nextId' = nextId + 1
      /\ setObjectsCalls' = setObjectsCalls + 1
      /\ UNCHANGED <<firestore, loading, user, mounted, persistLog,
                     selectedObjectId, uiVars>>
      /\ FlyToEffect

\* project files with no and with one record
CloudProjectFiles ==
  { File(JObject([layers |-> JArray(<<>>), objects |-> JArray(<<>>)])),
    File(JObject([layers |-> JArray(<<FileLayer>>),
                  objects |-> JArray(<<FilePoint(101)>>)])) }

\* the Load Project control of the sidebar, confirmed
AppLoadProject(file) ==
  LET loaded == loadProjectFromFile(file)
  IN  /\ mounted
      /\ StoreOpsLeft
      /\ PendingLeft(2)
      /\ loaded.ok
      /\ loaded.layers.t = "array"
      /\ loaded.objects.t = "array"
      /\ lastEvent' = LoadEvent(file, TRUE)
      /\ handleLoadProject(file, TRUE)
      /\ sent' = sent \o Carried(<<Document("saveLayers", NullId,
                                            loaded.layers.items),
                                   Document("saveObjectsBatch", NullId,
                                            loaded.objects.items)>>)
      /\ setObjectsCalls' = setObjectsCalls + 1
      /\ UNCHANGED <<firestore, loading, user, nextId, persistLog,
                     selectedObjectId, uiVars>>
      /\ FlyToEffect

\* a click on a record of the map
AppSelect(id) ==
  /\ mounted
  /\ ObjectClick(id)

NextApp ==
  \/ \E uid \in Uids : SignIn(uid)
  \/ SignOut
  \/ \E ok \in BOOLEAN : GetDoc(ok)
  \/ \E ok \in BOOLEAN : GetDocs(ok)
  \/ \E ok \in BOOLEAN : CommitChunk(ok)
  \/ \E ok \in BOOLEAN : UpdateDoc(ok)
  \/ \E obj \in {NewPoint(LatLng(0, 0))} : AppNew(obj)
  \/ \E id \in ObjectIds : AppUpdateTwice(id, [title |-> "Title", description |-> "Text"],
                                        [position |-> LatLng(10, 20)])
  \/ \E id \in ObjectIds : AppDelete(id)
  \/ \E id \in ObjectIds : AppSelect(id)
  \/ \E k \in 1..Len(layers) : DeleteLayer(layers[k].id)
  \/ \E file \in CloudProjectFiles : AppLoadProject(file)
  \/ \E i \in 1..Len(pending), ok \in BOOLEAN : AppSettle(i, ok)

SpecApp == InitApp /\ [][NextApp]_vars

\* the behaviours of App in which every call of Firestore is fulfilled
NextCloud ==
  \/ \E uid \in Uids : SignIn(uid)
  \/ SignOut
  \/ GetDoc(TRUE)
  \/ GetDocs(TRUE)
  \/ CommitChunk(TRUE)
  \/ UpdateDoc(TRUE)
  \/ \E obj \in {NewPoint(LatLng(0, 0))} : AppNew(obj)
  \/ \E id \in ObjectIds : AppUpdateTwice(id, [title |-> "Title", description |-> "Text"],
                                        [position |-> LatLng(10, 20)])
  \/ \E id \in ObjectIds : AppDelete(id)
  \/ \E k \in 1..Len(layers) : DeleteLayer(layers[k].id)
  \/ \E file \in CloudProjectFiles : AppLoadProject(file)
  \/ \E i \in 1..Len(pending) : AppSettle(i, TRUE)

SpecCloud == InitApp /\ [][NextCloud]_vars

\* the layers that the user has in Firestore when the session starts:
\* none, the default ones, an empty list, the layer of a project file
LayerContents ==
  { NoDocuments,
    [NoDocuments EXCEPT !.hasLayers = TRUE, !.layers = DEFAULT_LAYERS],
    [NoDocuments EXCEPT !.hasLayers = TRUE],
    [NoDocuments EXCEPT !.hasLayers = TRUE, !.layers = <<FileLayer>>] }

InitLayers == InitWith(LayerContents)

\* the layers of a session: the sidebar, the project file, the cloud load
\* and sign-out, while the writes of utils/firebase are in flight
NextLayers ==
  \/ \E uid \in Uids : SignIn(uid)
  \/ SignOut
  \/ \E ok \in BOOLEAN : GetDoc(ok)
  \/ \E ok \in BOOLEAN : GetDocs(ok)
  \/ AddLayer
  \/ \E k \in 1..Len(layers) : DeleteLayer(layers[k].id)
  \/ \E c \in {LatLng(10, 20)} : AppImport(c)
  \/ \E file \in CloudProjectFiles : AppLoadProject(file)

SpecLayers == InitLayers /\ [][NextLayers]_vars

(***************************************************************************)
(* The migration of the objects field of users/{uid}: a user of an earlier *)
(* version signs in, and signs out and in again.                           *)
(***************************************************************************)
\* the numbers of legacy objects: one, a full chunk, a chunk and one more
LegacySizes == {1, ChunkSize, ChunkSize + 1}

\* the objects field of users/{uid} with n records
LegacyObjects(n) ==
  [k \in 1..n |-> CloudPoint(1000 + k, DEFAULT_LAYERS[1].id)]

LegacyContents ==
  { [hasLayers |-> TRUE, layers |-> DEFAULT_LAYERS,
     objects |-> LegacyObjects(n), mapObjects |-> {}] : n \in LegacySizes }

InitMigration == InitWith(LegacyContents)

NextMigration ==
  \/ \E uid \in Uids : SignIn(uid)
  \/ SignOut
  \/ \E ok \in BOOLEAN : GetDoc(ok)
  \/ \E ok \in BOOLEAN : GetDocs(ok)
  \/ \E ok \in BOOLEAN : CommitChunk(ok)
  \/ \E ok \in BOOLEAN : UpdateDoc(ok)

SpecMigration == InitMigration /\ [][NextMigration]_vars

(***************************************************************************)
(* Properties.  A step is identified by the event it handles:              *)
(* lastEvent' is the event of the step, lastEvent.mode the drawing mode in *)
(* which it was dispatched.                                                *)
(***************************************************************************)
Last(seq) == seq[Len(seq)]

\* the step appends exactly one record to objects and reports it once
CreatesOne ==
  /\ Len(objects') = Len(objects) + 1
  /\ SubSeq(objects', 1, Len(objects)) = objects
  /\ setObjectsCalls' = setObjectsCalls + 1
  /\ Len(persistLog') = Len(persistLog) + 1
  /\ SubSeq(persistLog', 1, Len(persistLog)) = persistLog
  /\ Last(persistLog').op = "new"
  /\ Last(persistLog').id = Last(objects').id

\* the step neither changes objects nor calls a persistence callback
CreatesNone ==
  /\ objects' = objects
  /\ setObjectsCalls' = setObjectsCalls
  /\ persistLog' = persistLog

\* C1: whenever the drawing mode changes from m to m2, the in-progress
\* state of m is discarded: circleCenter and dragPoint are null unless m2 is
\* circle, tempPoints is empty, rulerPoints is empty unless m2 is ruler.
\* (Violated: the effect on drawingMode keeps tempPoints when m2 is polyline
\* or polygon, so a switch between the two carries the points over.)
C1_ModeChangeDiscards ==
  [][drawingMode' # drawingMode =>
       /\ (drawingMode' # "circle" =>
             circleCenter' = NullLatLng /\ dragPoint' = NullLatLng)
       /\ tempPoints' = <<>>
       /\ (drawingMode' # "ruler" => rulerPoints' = <<>>)]_vars

\* C2: a drag event of any handle leaves objects unchanged and calls no
\* persistence callback; the dragend performs exactly one update of objects
\* and exactly one onObjectUpdate, however many drag events came before.
C2_DragCommitsOnce ==
  [][/\ (lastEvent'.type \in {"dragstart", "drag"} => CreatesNone)
     /\ (lastEvent'.type = "dragend" =>
           /\ Len(objects') = Len(objects)
           /\ \A k \in 1..Len(objects) :
                objects[k].id # drag.id => objects'[k] = objects[k]
           /\ setObjectsCalls' = setObjectsCalls + 1
           /\ Len(persistLog') = Len(persistLog) + 1
           /\ SubSeq(persistLog', 1, Len(persistLog)) = persistLog
           /\ Last(persistLog').op = "update"
           /\ Last(persistLog').id = drag.id)]_vars

\* a whole-shape move was committed after at least 2 drag events
C2_Witness ==
  /\ lastEvent.type = "dragend"
  /\ lastEvent.handle = "move"
  /\ lastEvent.count >= 2
  /\ Last(persistLog).op = "update"
  /\ Last(persistLog).id = lastEvent.id
  /\ setObjectsCalls = 2

\* C3: a dblclick in polyline mode with fewer than 2 accumulated points, or
\* in polygon mode with fewer than 3, creates no record and calls no
\* persistence callback; a polyline created by a dblclick has at least 2
\* positions, a polygon at least 3.
C3_NoDegenerateShape ==
  [][lastEvent'.type = "dblclick" =>
       /\ (drawingMode = "polyline" /\ Len(tempPoints) < 2 => CreatesNone)
       /\ (drawingMode = "polygon" /\ Len(tempPoints) < 3 => CreatesNone)
       /\ (Len(objects') > Len(objects) =>
             /\ Last(objects').type \in {"polyline", "polygon"}
             /\ Last(objects').type = "polyline" =>
                  Len(Last(objects').positions) >= 2
             /\ Last(objects').type = "polygon" =>
                  Len(Last(objects').positions) >= 3)]_vars

\* a dblclick in polygon mode with 2 accumulated points created nothing
C3_Witness ==
  /\ lastEvent.type = "dblclick"
  /\ lastEvent.mode = "polygon"
  /\ lastEvent.count = 2
  /\ objects = <<>>
  /\ persistLog = <<>>
  /\ setObjectsCalls = 0

\* C4: after a dblclick in polyline or polygon mode, whether a record was
\* created or the shape was discarded, tempPoints is empty and the drawing
\* mode is none.
C4_DblClickResets ==
  lastEvent.type = "dblclick" /\ lastEvent.mode \in {"polyline", "polygon"}
    => tempPoints = <<>> /\ drawingMode = "none"

\* a dblclick in polyline mode created a polyline from 2 points
C4_Witness ==
  /\ lastEvent.type = "dblclick"
  /\ lastEvent.mode = "polyline"
  /\ lastEvent.count = 2
  /\ Len(objects) = 1
  /\ objects[1].type = "polyline"
  /\ tempPoints = <<>>
  /\ drawingMode = "none"

\* C5: in circle mode with the center c set by the first click, a second
\* click at p with calculateDistance(c, p) > 0 creates exactly one circle
\* with center c and the radius calculateDistance(c, p) of the click (not of
\* the last mousemove), and the drawing mode becomes none.
C5_CircleFromSecondClick ==
  [][(/\ lastEvent'.type = "click"
      /\ drawingMode = "circle"
      /\ circleCenter # NullLatLng
      /\ calculateDistance(circleCenter.lat, circleCenter.lng,
                           lastEvent'.latlng.lat, lastEvent'.latlng.lng) > 0)
     => /\ CreatesOne
        /\ Last(objects').type = "circle"
        /\ Last(objects').center = circleCenter
        /\ Last(objects').radius =
             calculateDistance(circleCenter.lat, circleCenter.lng,
                               lastEvent'.latlng.lat, lastEvent'.latlng.lng)
        /\ drawingMode' = "none"]_vars

\* a second click away from the center created the circle
C5_Witness ==
  /\ lastEvent.type = "click"
  /\ lastEvent.mode = "circle"
  /\ drawingMode = "none"
  /\ Len(objects) = 1
  /\ objects[1].type = "circle"
  /\ objects[1].center # lastEvent.latlng
  /\ objects[1].radius > 0
  /\ Last(persistLog).op = "new"

\* C6: in circle mode a second click on the coordinate of the center
\* (radius 0) creates no record, resets circleCenter and dragPoint to null
\* and sets the drawing mode to none.
C6_ZeroRadiusDiscarded ==
  [][(/\ lastEvent'.type = "click"
      /\ drawingMode = "circle"
      /\ circleCenter # NullLatLng
      /\ lastEvent'.latlng = circleCenter)
     => /\ CreatesNone
        /\ circleCenter' = NullLatLng
        /\ dragPoint' = NullLatLng
        /\ drawingMode' = "none"]_vars

\* the second click of circle mode left the store empty
C6_Witness ==
  /\ lastEvent.type = "click"
  /\ lastEvent.mode = "circle"
  /\ drawingMode = "none"
  /\ circleCenter = NullLatLng
  /\ objects = <<>>
  /\ persistLog = <<>>
  /\ setObjectsCalls = 0

\* C7: in every state reached by drawing, dragging and edits of the radius
\* input, every circle of objects has a radius > 0.
C7_RadiusPositive ==
  \A k \in 1..Len(objects) :
    objects[k].type = "circle" => objects[k].radius > 0

\* the radius input has set the radius of a drawn circle
C7_Witness ==
  /\ lastEvent.type = "radius"
  /\ Last(persistLog).op = "update"
  /\ \E k \in 1..Len(objects) :
       /\ objects[k].id = lastEvent.id
       /\ objects[k].type = "circle"
       /\ objects[k].radius = 7

\* C8: a click in point mode creates exactly one point whose position is
\* the coordinate of the click and sets the drawing mode to none, so that
\* a further click (in mode none) creates nothing.
C8_OnePointPerClick ==
  [][lastEvent'.type = "click" =>
       /\ (drawingMode = "point" =>
             /\ CreatesOne
             /\ Last(objects').type = "point"
             /\ Last(objects').position = lastEvent'.latlng
             /\ drawingMode' = "none")
       /\ (drawingMode = "none" => CreatesNone)]_vars

\* a click in point mode created the point at the clicked coordinate
C8_Witness ==
  /\ lastEvent.type = "click"
  /\ lastEvent.mode = "point"
  /\ drawingMode = "none"
  /\ Len(objects) = 1
  /\ objects[1].type = "point"
  /\ objects[1].position = lastEvent.latlng
  /\ objects[1].position = LatLng(10, 20)

\* C9: no click or dblclick in ruler mode changes objects or calls a
\* persistence callback; a click only appends its coordinate to
\* rulerPoints; rulerPoints is empty whenever the drawing mode is not ruler.
C9_RulerFrame ==
  /\ [][lastEvent'.type \in {"click", "dblclick"} /\ drawingMode = "ruler" =>
          /\ CreatesNone
          /\ lastEvent'.type = "click" =>
               /\ rulerPoints' = Append(rulerPoints, lastEvent'.latlng)
               /\ drawingMode' = "ruler"]_vars
  /\ [](drawingMode # "ruler" => rulerPoints = <<>>)

\* a dblclick ended a measurement of 2 points
C9_Witness ==
  /\ lastEvent.type = "dblclick"
  /\ lastEvent.mode = "ruler"
  /\ lastEvent.count = 2
  /\ drawingMode = "none"
  /\ rulerPoints = <<>>
  /\ objects = <<>>
  /\ persistLog = <<>>

\* C10: the delete action removes the object from objects and, in the same
\* step, sets selectedObjectId to null when the object was selected and
\* leaves it unchanged when it was not.
C10_DeleteClearsSelection ==
  [][lastEvent'.type = "delete" =>
       /\ lastEvent'.id \in ObjectIds
       /\ ObjectIds' = ObjectIds \ {lastEvent'.id}
       /\ Len(objects') = Len(objects) - 1
       /\ selectedObjectId' =
            IF selectedObjectId = lastEvent'.id THEN NullId
            ELSE selectedObjectId]_vars

\* an object other than the selected one was deleted: the selection stays
C10_Witness ==
  /\ lastEvent.type = "delete"
  /\ lastEvent.id \notin ObjectIds
  /\ selectedObjectId # NullId
  /\ selectedObjectId \in ObjectIds

\* the selected object was deleted: the selection is null
C10_WitnessSelected ==
  /\ lastEvent.type = "delete"
  /\ selectedObjectId = NullId
  /\ Len(objects) = 1

\* C11: every change of the drawing mode from none to a drawing mode, and
\* every click on empty map space while the mode is none, sets
\* selectedObjectId to null.
C11_SelectionCleared ==
  [][/\ (drawingMode = "none" /\ drawingMode' # "none" =>
           selectedObjectId' = NullId)
     /\ (lastEvent'.type = "click" /\ drawingMode = "none" =>
           selectedObjectId' = NullId)]_vars

\* the toolbar left mode none while an object was selected
C11_Witness ==
  /\ lastEvent.type = "toolbar"
  /\ lastEvent.mode = "none"
  /\ lastEvent.id # NullId
  /\ drawingMode # "none"
  /\ selectedObjectId = NullId

\* C12: a drag handle is active for an object only if the object is the
\* selected one and the drawing mode is none; no object is selected or
\* dragged while a drawing mode is active.
\* (Violated: handleObjectClick of the sidebar selects in every mode, and
\* the handles of circles, polylines and polygons are rendered for the
\* selected object in every mode.)
C12_HandlesOnlyInSelectMode ==
  /\ selectedObjectId # NullId => drawingMode = "none"
  /\ \A id \in ObjectIds, handle \in Handles, idx \in 0..MaxInput :
       Rendered(id) /\ HasHandle(objects[FindIndex(objects, id)], handle, idx)
         => selectedObjectId = id /\ drawingMode = "none"
  /\ drag # NoDrag => drawingMode = "none"

\* the step leaves the calls in flight as they are, but for one new call of
\* fn for the document id when a user is signed in
PendingAfter(fn, id) ==
  pending' = IF user # NullUser
             THEN Append(pending, [fn |-> fn, uid |-> user, id |-> id])
             ELSE pending

\* C13: an update addressed to an id that is not in objects changes nothing:
\* objects is unchanged and no persistence callback is invoked.
C13_AbsentUpdateNoOp ==
  [][lastEvent'.type = "update" /\ lastEvent'.id \notin ObjectIds =>
       CreatesNone /\ pending' = pending]_vars

\* an update of an absent id came after the insert of one object and left
\* one record, one callback and one call in flight
C13_Witness ==
  /\ lastEvent.type = "update"
  /\ lastEvent.id \notin ObjectIds
  /\ user # NullUser
  /\ Len(objects) = 1
  /\ Len(persistLog) = 1
  /\ setObjectsCalls = 1
  /\ Len(pending) = 1

\* C14: an update of an existing object changes only the supplied fields of
\* its record: id, layerId, type and every field that is not supplied keep
\* their values, and every other record is unchanged.
C14_UpdateMergesSupplied ==
  [][lastEvent'.type = "update" /\ lastEvent'.id \in ObjectIds =>
       LET i == FindIndex(objects, lastEvent'.id)
           updates == lastEvent'.updates
       IN  /\ Len(objects') = Len(objects)
           /\ \A k \in 1..Len(objects) : k # i => objects'[k] = objects[k]
           /\ DOMAIN objects'[i] = DOMAIN objects[i]
           /\ \A f \in DOMAIN objects[i] :
                objects'[i][f] = IF f \in DOMAIN updates THEN updates[f]
                                 ELSE objects[i][f]
           /\ objects'[i].id = objects[i].id
           /\ objects'[i].layerId = objects[i].layerId
           /\ objects'[i].type = objects[i].type]_vars

\* the radius of one of two records was updated, its center was not
C14_Witness ==
  /\ lastEvent.type = "update"
  /\ lastEvent.updates = [radius |-> 9]
  /\ Len(objects) = 2
  /\ \E i \in 1..Len(objects) :
       /\ objects[i].id = lastEvent.id
       /\ objects[i].type = "circle"
       /\ objects[i].radius = 9
       /\ objects[i].center = LatLng(0, 0)
       /\ objects[i].title = "New Circle"

\* C15: an insert, an update of an existing id and a delete each apply
\* their change to objects and invoke the matching persistence callback
\* exactly once in the same step, whatever calls are still in flight: the
\* call of utils/firebase is added to those in flight and is not awaited.
C15_PersistOnce ==
  [][/\ lastEvent'.type = "new" =>
          /\ CreatesOne
          /\ Last(objects').id = lastEvent'.id
          /\ PendingAfter("saveObject", lastEvent'.id)
     /\ lastEvent'.type = "update" /\ lastEvent'.id \in ObjectIds =>
          /\ \A f \in DOMAIN lastEvent'.updates :
               objects'[FindIndex(objects, lastEvent'.id)][f]
                 = lastEvent'.updates[f]
          /\ setObjectsCalls' = setObjectsCalls + 1
          /\ Len(persistLog') = Len(persistLog) + 1
          /\ SubSeq(persistLog', 1, Len(persistLog)) = persistLog
          /\ Last(persistLog').op = "update"
          /\ Last(persistLog').id = lastEvent'.id
          /\ PendingAfter("saveObject", lastEvent'.id)
     /\ lastEvent'.type = "delete" =>
          /\ lastEvent'.id \notin ObjectIds'
          /\ setObjectsCalls' = setObjectsCalls + 1
          /\ Len(persistLog') = Len(persistLog) + 1
          /\ SubSeq(persistLog', 1, Len(persistLog)) = persistLog
          /\ Last(persistLog').op = "delete"
          /\ Last(persistLog').id = lastEvent'.id
          /\ PendingAfter("deleteObject", lastEvent'.id)]_vars

\* an object was inserted and deleted while its saveObject was in flight
C15_Witness ==
  /\ lastEvent.type = "delete"
  /\ objects = <<>>
  /\ Len(pending) = 2
  /\ pending[1].fn = "saveObject"
  /\ pending[2].fn = "deleteObject"
  /\ pending[1].id = pending[2].id

\* C16: when a call of saveObject, deleteObject, saveLayers or
\* saveObjectsBatch fails, layers and objects stay as the optimistic change
\* left them: nothing is rolled back.
C16_NoRollback ==
  [][lastEvent'.type = "rejected" =>
       objects' = objects /\ layers' = layers]_vars

\* the saveObjectsBatch of an import failed: its layer and object remain
C16_Witness ==
  /\ lastEvent.type = "rejected"
  /\ lastEvent.call = "saveObjectsBatch"
  /\ Len(layers) = Len(DEFAULT_LAYERS) + 1
  /\ Len(objects) = 1
  /\ objects[1].layerId = layers[Len(layers)].id

\* C17: a radius input that is non-numeric, zero, negative or not finite
\* causes no update and no persistence call; only a positive finite number
\* changes the radius.
\* (Violated: handleChange tests !isNaN(val) && val > 0, which Infinity
\* passes; a text such as 1e999 is a valid number for the input and
\* parseFloat gives Infinity for it.)
C17_OnlyPositiveFinite ==
  [][lastEvent'.type = "radius" /\
       (objects' # objects \/ persistLog' # persistLog) =>
         LET r == objects'[FindIndex(objects, lastEvent'.id)].radius
         IN  r > 0 /\ r < Infinity]_vars

\* C18: the dragend of the vertex handle with index i of a polyline or
\* polygon replaces exactly positions[i] by the release coordinate: the
\* length of positions and every other index are unchanged.
C18_VertexDragReplacesOne ==
  [][lastEvent'.type = "dragend" /\ lastEvent'.handle = "vertex" =>
       LET i == FindIndex(objects, drag.id)
           old == objects[i].positions
           new == objects'[i].positions
       IN  /\ Len(new) = Len(old)
           /\ new[drag.idx] = lastEvent'.latlng
           /\ \A k \in 1..Len(old) : k # drag.idx => new[k] = old[k]]_vars

\* a vertex of a polyline was dragged and released on a coordinate
C18_Witness ==
  /\ lastEvent.type = "dragend"
  /\ lastEvent.handle = "vertex"
  /\ lastEvent.count >= 1
  /\ Last(persistLog).op = "update"
  /\ \E i \in 1..Len(objects) :
       /\ objects[i].id = lastEvent.id
       /\ objects[i].type = "polyline"
       /\ Len(objects[i].positions) = 2
       /\ \E k \in 1..2 : objects[i].positions[k] = lastEvent.latlng

C20_FlyToOncePerRequest ==
  [][/\ lastEvent'.type = "sidebar" =>
          /\ selectedObjectId' = lastEvent'.id
          /\ flyToTarget'.id = lastEvent'.id
          /\ flyToTarget'.time >= flyToTarget.time
     /\ flyCount' # flyCount =>
          /\ flyCount' = flyCount + 1
          /\ flyToTarget'.time > lastFlyToTime
          /\ lastFlyToTime' = flyToTarget'.time
     /\ flyToTarget' = flyToTarget => flyCount' = flyCount]_vars

\* the object of the one request was moved afterwards: still one fly-to
C20_Witness ==
  /\ lastEvent.type = "dragend"
  /\ flyToTarget.id = lastEvent.id
  /\ flyToTarget.time = 1
  /\ lastFlyToTime = 1
  /\ flyCount = 1

\* C21: toggling the visibility of a layer changes only the visible flag of
\* that layer: the objects (those of the layer included) and the other
\* layers stay as they are, and a second toggle of the same layer gives the
\* original list of layers back.
C21_ToggleOnlyVisible ==
  [][lastEvent'.type = "toggle" =>
       /\ objects' = objects
       /\ Len(layers') = Len(layers)
       /\ \A k \in 1..Len(layers) :
            IF layers[k].id = lastEvent'.id
            THEN /\ layers'[k].visible = ~layers[k].visible
                 /\ layers'[k].id = layers[k].id
            ELSE layers'[k] = layers[k]
       /\ ToggleVisible(layers', lastEvent'.id) = layers]_vars

\* a layer that holds a record has been hidden
C21_Witness ==
  /\ lastEvent.type = "toggle"
  /\ \E k \in 1..Len(layers) :
       layers[k].id = lastEvent.id /\ ~layers[k].visible
  /\ \E i \in 1..Len(objects) : objects[i].layerId = lastEvent.id

\* C22: loadProjectFromFile accepts a parsed file only when the keys layers
\* and objects are both present and both hold an array; any other content is
\* rejected with the error "Invalid project file format".
\* (Violated: the check is !json.layers || !json.objects, which any truthy
\* value passes, and the property access on the JSON text null throws a
\* TypeError instead.)
C22_AcceptsOnlyArrays ==
  [][(/\ lastEvent'.type = "load"
      /\ lastEvent'.file.readable
      /\ lastEvent'.file.text # NotJson) =>
       LET json == lastEvent'.file.text
           arrays == /\ Property(json, "layers").t = "array"
                     /\ Property(json, "objects").t = "array"
       IN  /\ lastEvent'.result.ok <=> arrays
           /\ ~arrays =>
                lastEvent'.result.error = "Invalid project file format"]_vars

\* the load of the step has replaced layers and objects
LoadSucceeds ==
  lastEvent'.result.ok /\ lastEvent'.confirmed /\ mounted'

\* C23: a project load that is rejected (the file is malformed or cannot be
\* read) leaves layers, objects, activeLayerId and the calls of the remote
\* store as they are; a load that succeeds replaces layers and objects by
\* those of the file together, and no load replaces only one of the two.
C23_LoadAllOrNothing ==
  [][lastEvent'.type = "load" =>
       /\ ~lastEvent'.result.ok =>
            /\ layers' = layers
            /\ objects' = objects
            /\ activeLayerId' = activeLayerId
            /\ pending' = pending
       /\ IF LoadSucceeds
          THEN LET json == JSONparse(lastEvent'.file.text)
               IN  /\ layers' = Property(json, "layers").items
                   /\ objects' = Property(json, "objects").items
          ELSE layers' = layers /\ objects' = objects]_vars

\* a file that has layers but no usable objects has been rejected by a
\* signed-in user who has records
C23_Witness ==
  /\ lastEvent.type = "load"
  /\ ~lastEvent.result.ok
  /\ lastEvent.result.error = "Invalid project file format"
  /\ Property(lastEvent.file.text, "layers").t = "array"
  /\ objects # <<>>
  /\ user # NullUser

\* C24: for all lists of layers L and of objects O, the file written by
\* saveProjectToFile(L, O), given to loadProjectFromFile, yields layers
\* equal to L and objects equal to O.
\* (Violated: JSON.stringify writes a number that is not finite as null, so
\* a circle whose radius is Infinity comes back with the radius null.)
C24_SaveLoadRoundTrip ==
  LET loaded == loadProjectFromFile(saveProjectToFile(layers, objects, 0))
  IN  /\ loaded.ok
      /\ loaded.layers = JArray(layers)
      /\ loaded.objects = JArray(objects)

\* C25: after any sequence of draw, import and project-load operations, no
\* two records of objects share an id and no two layers share an id.
\* (Violated: handleLoadProject stores the layers and objects of the file as
\* they are, whatever their ids.)
C25_IdsUnique ==
  /\ \A i, j \in 1..Len(objects) : i # j => objects[i].id # objects[j].id
  /\ \A i, j \in 1..Len(layers) : i # j => layers[i].id # layers[j].id

\* C26: at most one drawing session is active in every reachable state:
\* circleCenter is non-null only in mode circle, tempPoints is non-empty only
\* in mode polyline or polygon, rulerPoints is non-empty only in mode ruler,
\* so at most one of the three accumulators is non-empty.
C26_OneDrawingSession ==
  /\ circleCenter # NullLatLng => drawingMode = "circle"
  /\ tempPoints # <<>> => drawingMode \in {"polyline", "polygon"}
  /\ rulerPoints # <<>> => drawingMode = "ruler"
  /\ Cardinality({a \in {"circle", "path", "ruler"} :
                    \/ a = "circle" /\ circleCenter # NullLatLng
                    \/ a = "path" /\ tempPoints # <<>>
                    \/ a = "ruler" /\ rulerPoints # <<>>}) <= 1

\* the mode has been changed from polyline to polygon while the session
\* held two points, which the new session has taken over
C26_Witness ==
  /\ lastEvent.type = "toolbar"
  /\ lastEvent.mode = "polyline"
  /\ drawingMode = "polygon"
  /\ Len(tempPoints) = 2

\* C27: calculateDistance returns exactly 0 when the two points coincide
\* (the value the ruler shows for a single point)
C27_CoincidentDistanceZero ==
  (lastEvent.type = "calculateDistance" /\ lastEvent.done
     /\ lastEvent.args[1] = lastEvent.args[2])
    => lastEvent.result = 0

\* a call with both arguments at (10, 20) has returned
C27_Witness ==
  /\ lastEvent.type = "calculateDistance" /\ lastEvent.done
  /\ lastEvent.args[1] = LatLng(10, 20)
  /\ lastEvent.args[2] = LatLng(10, 20)
  /\ lastEvent.result = 0

\* the distances of the consecutive pairs of a path, added in order
RECURSIVE SumOfConsecutive(_)
SumOfConsecutive(ps) ==
  IF Len(ps) < 2 THEN 0
  ELSE Add(SumOfConsecutive(SubSeq(ps, 1, Len(ps) - 1)),
           calculateDistance(ps[Len(ps) - 1].lat, ps[Len(ps) - 1].lng,
                             ps[Len(ps)].lat, ps[Len(ps)].lng))

Orders(ps) ==
  LET n == Len(ps)
      perms == {f \in [1..n -> 1..n] :
                  \A i, j \in 1..n : i # j => f[i] # f[j]}
  IN  {[i \in 1..n |-> ps[f[i]]] : f \in perms}

\* the exact sum of a sequence of whole numbers
RECURSIVE SumExact(_)
SumExact(xs) == IF xs = <<>> THEN 0 ELSE Head(xs) + SumExact(Tail(xs))

Lats(ps) == [i \in 1..Len(ps) |-> ps[i].lat]
Lngs(ps) == [i \in 1..Len(ps) |-> ps[i].lng]
Magnitudes(xs) == [i \in 1..Len(xs) |-> Abs(xs[i])]

\* v is the arithmetic mean of xs, at the resolution of the model
IsMean(v, xs) ==
  /\ Len(xs) * v <= SumExact(xs)
  /\ SumExact(xs) < Len(xs) * (v + 1)

\* no addition of elements of xs, in any order, has to be rounded
SumsAreNumbers(xs) == SumExact(Magnitudes(xs)) <= Pow2(Precision)

\* C29 as stated: getCentroid returns (0,0) for an empty sequence and
\* otherwise the arithmetic mean of the latitudes and of the longitudes
\* ([(0,0),(10,10)] gives (5,5)), whatever the order of the points
C29_MeanInAnyOrder ==
  (lastEvent.type = "getCentroid" /\ lastEvent.done) =>
    LET ps == lastEvent.args[1]
        res == lastEvent.result
    IN  /\ Len(ps) = 0 => res = LatLng(0, 0)
        /\ ps = <<LatLng(0, 0), LatLng(10, 10)>> => res = LatLng(5, 5)
        /\ Len(ps) > 0 =>
             /\ IsMean(res.lat, Lats(ps))
             /\ IsMean(res.lng, Lngs(ps))
             /\ \A qs \in Orders(ps) : getCentroid(qs) = res

\* C29, amended: getCentroid returns (0,0) for an empty sequence and (5,5)
\* for [(0,0),(10,10)]; when no sum of the coordinates has to be rounded it
\* returns their arithmetic mean, whatever the order of the points
C29_MeanWhenSumsExact ==
  (lastEvent.type = "getCentroid" /\ lastEvent.done) =>
    LET ps == lastEvent.args[1]
        res == lastEvent.result
    IN  /\ Len(ps) = 0 => res = LatLng(0, 0)
        /\ ps = <<LatLng(0, 0), LatLng(10, 10)>> => res = LatLng(5, 5)
        /\ (Len(ps) > 0 /\ SumsAreNumbers(Lats(ps))
              /\ SumsAreNumbers(Lngs(ps))) =>
             /\ IsMean(res.lat, Lats(ps))
             /\ IsMean(res.lng, Lngs(ps))
             /\ \A qs \in Orders(ps) : getCentroid(qs) = res

\* the centroid of three points whose sums are exact has been computed, and
\* another order of the points gives it too
C29_Witness ==
  /\ lastEvent.type = "getCentroid" /\ lastEvent.done
  /\ lastEvent.args[1] = <<LatLng(1, 1), LatLng(10, 10), LatLng(1, 1)>>
  /\ SumsAreNumbers(Lngs(lastEvent.args[1]))
  /\ lastEvent.result = LatLng(4, 4)
  /\ getCentroid(<<LatLng(10, 10), LatLng(1, 1), LatLng(1, 1)>>)
       = lastEvent.result

\* a rendered distance read back: the whole part, the digits after the
\* point and their number, and what follows them
ReadRendering(text) ==
  LET afterWhole == DropDigits(text)
      fraction == IF afterWhole # <<>> /\ Head(afterWhole) = "."
                  THEN Tail(afterWhole) ELSE <<>>
  IN  [whole |-> ParseDigits(text, 0),
       frac |-> ParseDigits(fraction, 0),
       decimals |-> Len(fraction) - Len(DropDigits(fraction)),
       suffix |-> DropDigits(fraction)]

\* C30: formatDistance renders every distance below 1000 in meters (1
\* decimal, suffix " m") and every distance at or above 1000 in kilometers
\* (value / 1000, 2 decimals, suffix " km"); 999 gives "999.0 m" and 1000
\* gives "1.00 km".  (The argument is in thousandths of a meter.)
C30_UnitSwitchesAt1000 ==
  (lastEvent.type = "formatDistance" /\ lastEvent.done) =>
    LET meters == lastEvent.args[1]
        shown == ReadRendering(lastEvent.result)
    IN  /\ meters < 1000 * 1000 =>
             /\ shown.suffix = <<" ", "m">>
             /\ shown.decimals = 1
             /\ Abs((shown.whole * 10 + shown.frac) * 100 - meters) <= 50
        /\ meters >= 1000 * 1000 =>
             /\ shown.suffix = <<" ", "k", "m">>
             /\ shown.decimals = 2
             /\ Abs((shown.whole * 100 + shown.frac) * 10000 - meters) <= 5000
        /\ meters = 999 * 1000 =>
             lastEvent.result = <<"9", "9", "9", ".", "0", " ", "m">>
        /\ meters = 1000 * 1000 =>
             lastEvent.result = <<"1", ".", "0", "0", " ", "k", "m">>

\* exactly 1000 meters have been rendered, in kilometers
C30_Witness ==
  /\ lastEvent.type = "formatDistance" /\ lastEvent.done
  /\ lastEvent.args[1] = 1000 * 1000
  /\ lastEvent.result = <<"1", ".", "0", "0", " ", "k", "m">>

\* C31: the positions of a polyline or polygon created by a dblclick are
\* exactly the coordinates accepted by the click handler since the mode was
\* entered, in click order: entering the mode starts with no point, every
\* click in the mode appends its coordinate, no other event changes the
\* accumulated points, and the dblclick creates the record from them
\* without adding one.  (Violated: a switch between polyline and polygon
\* enters the mode with the points of the other mode, see C1.)
C31_PositionsAreClicks ==
  [][/\ (drawingMode' \in {"polyline", "polygon"}
           /\ drawingMode' # drawingMode) => tempPoints' = <<>>
     /\ (lastEvent'.type = "click"
           /\ drawingMode \in {"polyline", "polygon"}) =>
          tempPoints' = Append(tempPoints, lastEvent'.latlng)
     /\ (drawingMode \in {"polyline", "polygon"}
           /\ drawingMode' = drawingMode
           /\ lastEvent'.type # "click") => tempPoints' = tempPoints
     /\ (lastEvent'.type = "dblclick" /\ Len(objects') > Len(objects)) =>
          /\ Last(objects').type = drawingMode
          /\ Last(objects').positions = tempPoints]_vars

\* C32: the vertex handles of a selected polyline or polygon are rendered
\* if and only if it has at most 100 points, and its move handle whatever
\* its size; a shape of more than 100 points keeps its positions in every
\* step but the dragend of the move handle, which translates all of them
C32_VertexHandlesUpToLimit ==
  /\ [](\A i \in 1..Len(objects) :
          (objects[i].type \in {"polyline", "polygon"}
             /\ selectedObjectId = objects[i].id) =>
            /\ \A idx \in 1..Len(objects[i].positions) :
                 HasHandle(objects[i], "vertex", idx)
                   <=> Len(objects[i].positions) <= 100
            /\ HasHandle(objects[i], "move", 0))
  /\ [][\A i \in 1..Len(objects) :
          (objects[i].type \in {"polyline", "polygon"}
             /\ Len(objects[i].positions) > 100) =>
            \/ objects'[i] = objects[i]
            \/ /\ lastEvent'.type = "dragend"
               /\ lastEvent'.handle = "move"
               /\ Len(objects'[i].positions) = Len(objects[i].positions)
               /\ \A k \in 1..Len(objects[i].positions) :
                    /\ objects'[i].positions[k].lat - objects[i].positions[k].lat
                         = objects'[i].positions[1].lat
                             - objects[i].positions[1].lat
                    /\ objects'[i].positions[k].lng - objects[i].positions[k].lng
                         = objects'[i].positions[1].lng
                             - objects[i].positions[1].lng]_vars

\* the last vertex of a shape of 100 points was dragged and committed
C32_Witness ==
  /\ lastEvent.type = "dragend"
  /\ lastEvent.handle = "vertex"
  /\ Len(objects[1].positions) = 100
  /\ objects[1].positions[100] = lastEvent.latlng
  /\ objects[1].positions[100] # ImportedShape("polyline", 100).positions[100]

\* a shape of 101 points was moved as a whole
C32_WitnessAboveLimit ==
  /\ lastEvent.type = "dragend"
  /\ lastEvent.handle = "move"
  /\ Len(objects[1].positions) = 101
  /\ objects[1].positions # ImportedShape(objects[1].type, 101).positions

\* the records of objs whose layer is not id, and only those, are the
\* records of kept
KeepsAllButLayer(objs, kept, id) ==
  LET others == {k \in 1..Len(objs) : objs[k].layerId # id}
  IN  /\ Len(kept) = Cardinality(others)
      /\ \A j \in 1..Len(kept) : \E k \in others : kept[j] = objs[k]
      /\ \A k \in others : \E j \in 1..Len(kept) : kept[j] = objs[k]

\* C37: after any sequence of draw, addLayer and deleteLayer operations
\* every object's layerId is the id of an existing layer; a created record
\* takes the activeLayerId of the moment it is completed, and deleting a
\* layer removes exactly the objects whose layerId is the deleted id and
\* leaves all other objects unchanged
C37_ObjectsOnExistingLayers ==
  /\ [](\A k \in 1..Len(objects) : objects[k].layerId \in LayerIds(layers))
  /\ [][/\ lastEvent'.type = "new" =>
             /\ Len(objects') = Len(objects) + 1
             /\ SubSeq(objects', 1, Len(objects)) = objects
             /\ Last(objects').layerId = activeLayerId
        /\ lastEvent'.type = "deleteLayer" /\ Len(layers) > 1 =>
             KeepsAllButLayer(objects, objects', lastEvent'.id)]_vars

\* a layer with a record has been deleted while another layer keeps its
\* record
C37_Witness ==
  /\ lastEvent.type = "deleteLayer"
  /\ lastEvent.id \notin LayerIds(layers)
  /\ Len(persistLog) = 2
  /\ Len(objects) = 1

\* C38: through any sequence of addLayer, deleteLayer, toggleLayerVisibility
\* and updateLayer calls, two deleteLayer calls of one render included, the
\* layer list is never empty, and deleteLayer changes nothing when a single
\* layer remains
C38_LayersNeverEmpty ==
  /\ [](Len(layers) > 0)
  /\ [][lastEvent'.type = "deleteLayer" /\ Len(layers) = 1 =>
          /\ layers' = layers
          /\ objects' = objects
          /\ activeLayerId' = activeLayerId
          /\ pending' = pending]_vars

\* deleteLayer has been called for the only layer, which is still there
C38_Witness ==
  /\ lastEvent.type = "deleteLayer"
  /\ Len(layers) = 1
  /\ layers[1].id = lastEvent.id

\* two different layers of a list of two have been deleted in one render
C38_WitnessTwice ==
  /\ lastEvent.type = "deleteLayerTwice"
  /\ lastEvent.updates[1] # lastEvent.updates[2]
  /\ Len(layers) = 1

\* C33: in every reachable state selectedObjectId is null or the id of an
\* object of the collection, also after the layer of the selected object
\* has been deleted, after a project has been loaded and after sign-out
C33_SelectionExists ==
  selectedObjectId = NullId \/ FindIndex(objects, selectedObjectId) # 0

\* C34: the completion of the cloud load removes no record that was
\* created locally after sign-in: every such record is still in the
\* collection when the callback of the auth listener has set the loaded
\* data
C34_LoadKeepsLocalRecords ==
  [][lastEvent'.type = "fulfilled" /\ lastEvent'.call = "getDocs" =>
       \A k \in 1..Len(objects) :
         objects[k].id >= loading.since /\ objects[k].id < nextId =>
           FindIndex(objects', objects[k].id) # 0]_vars

\* no call of utils/firebase and no run of loadUserData is in flight
Quiescent == pending = <<>> /\ loading.stage = "none"

\* C35: once every persistence call that was dispatched has completed
\* successfully, the objects of the remote mapObjects store are the objects
\* of the local collection, whatever the order in which the writes and the
\* deletes completed
C35_RemoteEqualsLocal ==
  user # NullUser /\ Quiescent =>
    firestore.mapObjects = {objects[k] : k \in 1..Len(objects)}

\* the record has the fields of the second updates, and those of the first
\* that the second does not write
HasBothUpdates(obj, first, second) ==
  /\ \A f \in DOMAIN second : obj[f] = second[f]
  /\ \A f \in DOMAIN first \ DOMAIN second : obj[f] = first[f]

\* C36: when two updates of one object are dispatched through
\* handleObjectUpdate before the next render, the resulting record and the
\* snapshot persisted last contain both changes
C36_BothUpdatesKept ==
  [][lastEvent'.type = "updateTwice" =>
       LET i == FindIndex(objects', lastEvent'.id)
           first == lastEvent'.updates[1]
           second == lastEvent'.updates[2]
       IN  /\ i # 0
           /\ HasBothUpdates(objects'[i], first, second)
           /\ user # NullUser =>
                HasBothUpdates(Last(sent').data[1], first, second)]_vars

\* C39: whenever the layer list is not empty and the integrity effect has
\* run, activeLayerId is the id of an existing layer: after a layer is
\* added, after the active layer is deleted, after an import, after a
\* project is loaded, after the cloud load of a sign-in and after sign-out
C39_ActiveLayerExists ==
  Len(layers) > 0 => activeLayerId \in LayerIds(layers)

\* the cloud load has brought the layers of a project file, none of which
\* was the active layer of the guest
C39_Witness ==
  /\ lastEvent.type = "fulfilled"
  /\ lastEvent.call = "getDocs"
  /\ layers = <<FileLayer>>
  /\ activeLayerId = FileLayer.id

\* the cloud load has brought the default layers while a layer added by
\* the guest was the active one
C39_WitnessAdded ==
  /\ lastEvent.type = "fulfilled"
  /\ lastEvent.call = "getDocs"
  /\ layers = DEFAULT_LAYERS
  /\ nextId = 2
  /\ setObjectsCalls = 1
  /\ activeLayerId = DEFAULT_LAYERS[1].id

\* the records of a sequence
Records(seq) == {seq[k] : k \in 1..Len(seq)}

\* C40: during the migration of loadUserData the objects field of the root
\* document is deleted only after every legacy object has been committed
\* to mapObjects; a commit that fails leaves the field and the documents as
\* they are and ends the migration; so each legacy object is at every
\* moment in the field or in mapObjects
C40_LegacyObjectsStored ==
  /\ [](Records(loading.legacyObjects)
          \subseteq Records(firestore.objects) \cup firestore.mapObjects)
  /\ [][/\ firestore'.objects # firestore.objects =>
             /\ lastEvent'.type = "fulfilled"
             /\ lastEvent'.call = "updateDoc"
             /\ firestore.objects # <<>>
             /\ Records(firestore.objects) \subseteq firestore.mapObjects
        /\ lastEvent'.type = "rejected" /\ lastEvent'.call = "commit" =>
             /\ firestore' = firestore
             /\ loading'.stage = "none"]_vars

\* the field has been deleted after two chunks were committed
C40_Witness ==
  /\ lastEvent.type = "fulfilled"
  /\ lastEvent.call = "updateDoc"
  /\ firestore.objects = <<>>
  /\ Cardinality(firestore.mapObjects) = ChunkSize + 1

\* the second commit has failed after the first was fulfilled: the field is
\* intact
C40_WitnessSecondFails ==
  /\ lastEvent.type = "rejected"
  /\ lastEvent.call = "commit"
  /\ lastEvent.id = 2
  /\ Len(firestore.objects) = ChunkSize + 1
  /\ Cardinality(firestore.mapObjects) = ChunkSize

====
